---- MODULE Spec2Model ----
(***************************************************************************)
(* dotsecret: the configuration-language interpreter.                      *)
(*                                                                         *)
(* The model follows one run of the pipeline used by the CLI and by the    *)
(* tests: Parser.parse(content) and then Evaluator.evaluate(files).        *)
(* Text is modelled as a sequence of one-character strings so that         *)
(* unquoting, pipe splitting, appending and interpolation are computed on  *)
(* characters, as the source computes them.                                *)
(***************************************************************************)
EXTENDS Integers, Sequences, FiniteSets, TLC

(***************************************************************************)
(* Bounds of the explored inputs.                                          *)
(***************************************************************************)
MaxOpLines == 3
MaxPipeLines == 2
MaxAppendLines == 3
MaxNestedLines == 3
MaxCarryLines == 2
MaxScopeLines == 4
MaxValueLen == 5
MaxProfileLines == 4
MaxPolicyLines == 3
MaxWarnLines == 2
MaxRules == 2
MaxIncludes == 2
MaxCycleIncludes == 1
MaxLayerLines == 2
MaxDepth == 6

(***************************************************************************)
(* Characters and the string primitives of the host language.              *)
(***************************************************************************)
DQ == "\""
SQ == "'"
BS == "\\"

WordChars ==
  {"a", "b", "c", "d", "e", "f", "i", "j", "k", "l", "m", "n", "o", "p", "r", "s",
   "t", "u", "v", "w", "x", "A", "B", "C", "K", "N", "P", "U", "X", "_", "0",
   "1"}

IsSpace(c) == c = " "

Digits == {"0", "1", "2", "3", "4", "5", "6", "7", "8", "9"}

RECURSIVE TrimStart(_)
TrimStart(s) ==
  IF s # <<>> /\ IsSpace(Head(s)) THEN TrimStart(Tail(s)) ELSE s

RECURSIVE TrimEnd(_)
TrimEnd(s) ==
  IF s # <<>> /\ IsSpace(s[Len(s)]) THEN TrimEnd(SubSeq(s, 1, Len(s) - 1)) ELSE s

Trim(s) == TrimEnd(TrimStart(s))

StartsWith(s, p) == Len(s) >= Len(p) /\ SubSeq(s, 1, Len(p)) = p

EndsWith(s, p) == Len(s) >= Len(p) /\ SubSeq(s, Len(s) - Len(p) + 1, Len(s)) = p

\* The text of a character sequence, used where the source uses a string as a
\* map key or inside a message.
RECURSIVE Join(_)
Join(s) == IF s = <<>> THEN "" ELSE Head(s) \o Join(Tail(s))

UpperChar(c) ==
  CASE c = "a" -> "A" [] c = "b" -> "B" [] c = "c" -> "C" [] c = "x" -> "X"
    [] c = "p" -> "P" [] c = "u" -> "U"
    [] OTHER -> c

LowerChar(c) ==
  CASE c = "A" -> "a" [] c = "B" -> "b" [] c = "C" -> "c" [] c = "X" -> "x"
    [] c = "P" -> "p" [] c = "U" -> "u"
    [] OTHER -> c

(***************************************************************************)
(* Parser (src/src/core/parser.ts)                                         *)
(***************************************************************************)

\* value.replace(/\\(.)/g, "$1")
RECURSIVE Unescape(_)
Unescape(s) ==
  IF s = <<>> THEN <<>>
  ELSE IF Head(s) = BS /\ Len(s) >= 2
       THEN <<s[2]>> \o Unescape(SubSeq(s, 3, Len(s)))
       ELSE <<Head(s)>> \o Unescape(Tail(s))

Unquote(value) ==
  LET v == Trim(value)
  IN IF StartsWith(v, <<DQ, DQ, DQ>>) /\ EndsWith(v, <<DQ, DQ, DQ>>)
     THEN SubSeq(v, 4, Len(v) - 3)
     ELSE IF (StartsWith(v, <<DQ>>) /\ EndsWith(v, <<DQ>>))
              \/ (StartsWith(v, <<SQ>>) /\ EndsWith(v, <<SQ>>))
          THEN Unescape(SubSeq(v, 2, Len(v) - 1))
          ELSE Unescape(v)

\* Index of the first "||" at or after position i, 0 when there is none.
RECURSIVE IndexOfOr(_, _)
IndexOfOr(s, i) ==
  IF i >= Len(s) THEN 0
  ELSE IF s[i] = "|" /\ s[i + 1] = "|" THEN i
  ELSE IndexOfOr(s, i + 1)

\* value.split(/\s*\|\|\s*/)
RECURSIVE SplitFallback(_)
SplitFallback(s) ==
  LET i == IndexOfOr(s, 1)
  IN IF i = 0 THEN <<s>>
     ELSE <<TrimEnd(SubSeq(s, 1, i - 1))>>
            \o SplitFallback(TrimStart(SubSeq(s, i + 2, Len(s))))

RECURSIVE SplitPipesScan(_, _, _)
SplitPipesScan(value, i, st) ==
  IF i > Len(value)
  THEN IF st.current # <<>> THEN Append(st.parts, Trim(st.current)) ELSE st.parts
  ELSE
    LET char == value[i]
        next == IF i < Len(value) THEN value[i + 1] ELSE ""
        prev == IF i > 1 THEN value[i - 1] ELSE ""
        q == IF ~st.inQuote /\ char \in {DQ, SQ}
             THEN [st EXCEPT !.inQuote = TRUE, !.quoteChar = char]
             ELSE IF st.inQuote /\ char = st.quoteChar /\ prev # BS
                  THEN [st EXCEPT !.inQuote = FALSE]
                  ELSE st
    IN IF ~q.inQuote
       THEN LET d == IF char = "(" THEN q.depth + 1
                     ELSE IF char = ")" THEN q.depth - 1 ELSE q.depth
                r == [q EXCEPT !.depth = d]
            IN IF char = "?" /\ next = "|" /\ d = 0
               THEN SplitPipesScan(value, i + 2,
                      [r EXCEPT !.parts = Append(@, Trim(r.current)),
                                !.current = <<"?">>])
               ELSE IF char = "|" /\ d = 0 /\ next # "|"
                    THEN SplitPipesScan(value, i + 1,
                           [r EXCEPT !.parts = Append(@, Trim(r.current)),
                                     !.current = <<>>])
                    ELSE SplitPipesScan(value, i + 1,
                           [r EXCEPT !.current = Append(@, char)])
       ELSE SplitPipesScan(value, i + 1, [q EXCEPT !.current = Append(@, char)])

SplitPipes(value) ==
  SplitPipesScan(value, 1,
    [parts |-> <<>>, current |-> <<>>, depth |-> 0, inQuote |-> FALSE,
     quoteChar |-> ""])

\* Length of the longest prefix of s made of \w characters.
RECURSIVE WordPrefixLen(_)
WordPrefixLen(s) ==
  IF s # <<>> /\ Head(s) \in WordChars THEN 1 + WordPrefixLen(Tail(s)) ELSE 0

\* The part of a pipe segment after its name: empty, or "(" [^)]* ")".
PipeArgsOk(rest) ==
  LET r == TrimStart(rest)
  IN rest = <<>>
     \/ (/\ Len(r) >= 2
         /\ r[1] = "("
         /\ r[Len(r)] = ")"
         /\ \A j \in 2..(Len(r) - 1) : r[j] # ")")

NoPipe == [name |-> "", soft |-> FALSE, ok |-> FALSE]

\* parsePipe: the PipeCall of one segment, or null (ok = FALSE) when the
\* segment is not of the form name or name(args).
ParsePipe(content) ==
  LET soft == StartsWith(content, <<"?">>)
      pipeContent == IF soft THEN Trim(Tail(content)) ELSE Trim(content)
      n == WordPrefixLen(pipeContent)
  IN IF n >= 1 /\ PipeArgsOk(SubSeq(pipeContent, n + 1, Len(pipeContent)))
     THEN [name |-> Join(SubSeq(pipeContent, 1, n)), soft |-> soft, ok |-> TRUE]
     ELSE NoPipe

RECURSIVE ParsePipes(_)
ParsePipes(segments) ==
  IF segments = <<>> THEN <<>>
  ELSE LET p == ParsePipe(Head(segments))
       IN (IF p.ok THEN <<[name |-> p.name, soft |-> p.soft]>> ELSE <<>>)
            \o ParsePipes(Tail(segments))

\* Index of the first "://" at or after position i, 0 when there is none.
RECURSIVE IndexOfScheme(_, _)
IndexOfScheme(s, i) ==
  IF i + 2 > Len(s) THEN 0
  ELSE IF SubSeq(s, i, i + 2) = <<":", "/", "/">> THEN i
  ELSE IndexOfScheme(s, i + 1)

\* Index of the first character c at or after position i, 0 when there is none.
RECURSIVE IndexOfChar(_, _, _)
IndexOfChar(s, c, i) ==
  IF i > Len(s) THEN 0
  ELSE IF s[i] = c THEN i
  ELSE IndexOfChar(s, c, i + 1)

\* splitArgs: the comma-separated parts outside quotes.
RECURSIVE SplitArgsScan(_, _, _)
SplitArgsScan(argsStr, i, st) ==
  IF i > Len(argsStr)
  THEN IF st.current # <<>> THEN Append(st.args, Trim(st.current)) ELSE st.args
  ELSE
    LET char == argsStr[i]
        prev == IF i > 1 THEN argsStr[i - 1] ELSE ""
        q == IF ~st.inQuote /\ char \in {DQ, SQ}
             THEN [st EXCEPT !.inQuote = TRUE, !.quoteChar = char]
             ELSE IF st.inQuote /\ char = st.quoteChar /\ prev # BS
                  THEN [st EXCEPT !.inQuote = FALSE]
                  ELSE st
    IN IF ~q.inQuote /\ char = ","
       THEN SplitArgsScan(argsStr, i + 1,
              [q EXCEPT !.args = Append(@, Trim(q.current)), !.current = <<>>])
       ELSE SplitArgsScan(argsStr, i + 1, [q EXCEPT !.current = Append(@, char)])

SplitArgs(argsStr) ==
  SplitArgsScan(argsStr, 1,
    [args |-> <<>>, current |-> <<>>, inQuote |-> FALSE, quoteChar |-> ""])

\* The loop of parseArgs over the parts: name=value, or a bare value stored
\* under "value".
RECURSIVE ParseArgsFrom(_, _, _)
ParseArgsFrom(parts, i, args) ==
  IF i > Len(parts) THEN args
  ELSE LET part == parts[i]
           e == IndexOfChar(part, "=", 1)
       IN ParseArgsFrom(parts, i + 1,
            IF e > 1
            THEN (Join(Trim(SubSeq(part, 1, e - 1)))
                    :> Unquote(Trim(SubSeq(part, e + 1, Len(part))))) @@ args
            ELSE ("value" :> Unquote(Trim(part))) @@ args)

ParseArgs(argsStr) ==
  IF argsStr = <<>> THEN <<>> ELSE ParseArgsFrom(SplitArgs(argsStr), 1, <<>>)

\* provider: undefined
NoProvider == [kind |-> "none", scheme |-> "", uri |-> <<>>, fn |-> "", args |-> <<>>]

\* parseProvider.  kind = "invalid" stands for the ParseError it throws.
ParseProvider(content) ==
  LET s == IndexOfScheme(content, 1)
      n == WordPrefixLen(content)
      rest == TrimStart(SubSeq(content, n + 1, Len(content)))
  IN IF s # 0
     THEN [NoProvider EXCEPT !.kind = "uri",
                             !.scheme = Join(SubSeq(content, 1, s - 1)),
                             !.uri = content]
     ELSE IF /\ n >= 1
             /\ Len(rest) >= 2
             /\ rest[1] = "("
             /\ rest[Len(rest)] = ")"
             /\ \A j \in 2..(Len(rest) - 1) : rest[j] # ")"
          THEN [NoProvider EXCEPT !.kind = "call",
                                  !.fn = Join(SubSeq(content, 1, n)),
                                  !.args = ParseArgs(SubSeq(rest, 2, Len(rest) - 1))]
          ELSE [NoProvider EXCEPT !.kind = "invalid"]

\* parseExpression.  hasFallback = FALSE stands for fallback: undefined,
\* provider = NoProvider for provider: undefined, and literal is <<>> where
\* the source leaves it undefined (read as literal || "").
ParseExpression(value) ==
  LET parts == SplitFallback(Trim(value))
      pipeParts == SplitPipes(parts[1])
      firstPart == pipeParts[1]
      isEvaluated == StartsWith(firstPart, <<"!">>)
  IN [trigger |-> IF isEvaluated THEN "!" ELSE "",
      provider |-> IF isEvaluated THEN ParseProvider(Tail(firstPart)) ELSE NoProvider,
      literal |-> IF isEvaluated THEN <<>> ELSE Unquote(firstPart),
      pipes |-> ParsePipes(Tail(pipeParts)),
      hasFallback |-> Len(parts) > 1,
      fallback |-> IF Len(parts) > 1 THEN Unquote(parts[2]) ELSE <<>>]

\* valueStr.match(/^\(["'](.+)["']\)/): the position of the closing quote of
\* the greedy match, 0 when the text does not match.
SepMatchEnd(valueStr) ==
  LET ends == {j \in 4..(Len(valueStr) - 1) :
                 valueStr[j] \in {DQ, SQ} /\ valueStr[j + 1] = ")"}
  IN IF /\ Len(valueStr) >= 5
        /\ valueStr[1] = "("
        /\ valueStr[2] \in {DQ, SQ}
        /\ ends # {}
     THEN CHOOSE j \in ends : \A k \in ends : k <= j
     ELSE 0

UnsetExpression ==
  [trigger |-> "", provider |-> NoProvider, literal |-> <<>>, pipes |-> <<>>,
   hasFallback |-> FALSE, fallback |-> <<>>]

\* parseAssignment.  A source line is given with the groups of the two
\* regular expressions already taken apart: protected, key, operator and the
\* text after the operator.  separator = <<>> stands for separator: undefined.
ParseAssignment(line, lineNo) ==
  LET valueStr == Trim(line.rest)
      j == SepMatchEnd(valueStr)
  IN [key |-> line.key,
      operator |-> line.operator,
      expression |-> IF line.operator = "@unset" THEN UnsetExpression
                     ELSE ParseExpression(valueStr),
      options |-> [protected |-> line.protected,
                   separator |-> IF line.operator = "+=" /\ j # 0
                                 THEN SubSeq(valueStr, 3, j - 1) ELSE <<>>],
      location |-> lineNo]

\* Index of the word "extends" in parts, 0 when absent.
RECURSIVE IndexOfExtends(_, _)
IndexOfExtends(parts, i) ==
  IF i > Len(parts) THEN 0
  ELSE IF parts[i] = <<"extends">> THEN i
  ELSE IndexOfExtends(parts, i + 1)

\* The names carried by the words after "extends".
RECURSIVE WordNames(_)
WordNames(parts) ==
  IF parts = <<>> THEN <<>> ELSE <<Head(parts)[1]>> \o WordNames(Tail(parts))

\* parseSection.  The header is given as its whitespace-separated words, each
\* word as its pieces around ":" (<<"scope", "python">> for scope:python).
ParseSection(parts, lineNo) ==
  IF Len(parts[1]) > 1
  THEN LET extendsIdx == IndexOfExtends(parts, 1)
       IN [type |-> parts[1][1],
           name |-> parts[1][2],
           extends |-> IF extendsIdx # 0
                       THEN WordNames(SubSeq(parts, extendsIdx + 1, Len(parts)))
                       ELSE <<>>,
           location |-> lineNo]
  ELSE [type |-> "profile", name |-> parts[1][1], extends |-> <<>>,
        location |-> lineNo]

\* const [key, value] = s.split("="): the first two pieces.
SplitEquals(s) ==
  LET e == IndexOfChar(s, "=", 1)
  IN IF e = 0 THEN [key |-> s, value |-> <<>>]
     ELSE LET rest == SubSeq(s, e + 1, Len(s))
              f == IndexOfChar(rest, "=", 1)
          IN [key |-> SubSeq(s, 1, e - 1),
              value |-> IF f = 0 THEN rest ELSE SubSeq(rest, 1, f - 1)]

\* parseDirective, @import: options[name] after the loop over parts[1..],
\* undefined (the empty string here, which the evaluator treats alike) when
\* no part sets it.
RECURSIVE ImportOption(_, _, _, _)
ImportOption(parts, i, name, acc) ==
  IF i > Len(parts) THEN acc
  ELSE LET kv == SplitEquals(parts[i])
       IN ImportOption(parts, i + 1, name,
            IF kv.key = name /\ kv.value # <<>> THEN Unquote(kv.value) ELSE acc)

\* parseFromDirective: the mappings of the body lines, a line without a key
\* or a value left out, a key given again keeping its place.
RECURSIVE FromMappings(_, _, _)
FromMappings(body, i, acc) ==
  IF i > Len(body) THEN acc
  ELSE LET kv == SplitEquals(body[i])
           key == Join(Trim(kv.key))
           val == Trim(kv.value)
       IN FromMappings(body, i + 1,
            IF Trim(kv.key) = <<>> \/ val = <<>> THEN acc
            ELSE IF \E j \in 1..Len(acc) : acc[j].key = key
            THEN [j \in 1..Len(acc) |->
                    IF acc[j].key = key THEN [key |-> key, path |-> Unquote(val)]
                    ELSE acc[j]]
            ELSE Append(acc, [key |-> key, path |-> Unquote(val)]))

\* parse: the nodes of the lines from lineNo on.
RECURSIVE ParseLines(_, _)
ParseLines(lines, lineNo) ==
  IF lineNo > Len(lines) THEN <<>>
  ELSE LET line == lines[lineNo]
       IN (CASE line.kind = "blank" -> <<>>
             [] line.kind = "comment" -> <<[type |-> "comment"]>>
             [] line.kind = "section" ->
                  <<[type |-> "section", data |-> ParseSection(line.parts, lineNo)]>>
             [] line.kind = "include" ->
                  <<[type |-> "directive",
                     data |-> [type |-> "include",
                               path |-> Unquote(Trim(line.rest)),
                               location |-> lineNo]]>>
             [] line.kind = "import" ->
                  <<[type |-> "directive",
                     data |-> [type |-> "import",
                               uri |-> line.parts[1],
                               prefix |-> ImportOption(line.parts, 2, <<"p", "r", "e", "f", "i", "x">>, <<>>),
                               case |-> ImportOption(line.parts, 2, <<"c", "a", "s", "e">>, <<>>),
                               location |-> lineNo]]>>
             [] line.kind = "from" ->
                  <<[type |-> "directive",
                     data |-> [type |-> "from",
                               baseUri |-> line.baseUri,
                               mappings |-> FromMappings(line.body, 1, <<>>),
                               location |-> lineNo]]>>
             [] line.kind = "assignment" ->
                  <<[type |-> "assignment", data |-> ParseAssignment(line, lineNo)]>>)
            \o ParseLines(lines, lineNo + 1)

Parse(content, file) == [path |-> file, nodes |-> ParseLines(content, 1)]

(***************************************************************************)
(* The parser over the text of a file: content.split("\n") as a sequence   *)
(* of lines, each a sequence of characters.                                *)
(***************************************************************************)

UpperLetters ==
  {"A", "B", "C", "D", "E", "F", "G", "H", "I", "J", "K", "L", "M", "N", "O",
   "P", "Q", "R", "S", "T", "U", "V", "W", "X", "Y", "Z"}

\* [A-Z_] and [A-Z0-9_]
KeyStartChars == UpperLetters \cup {"_"}
KeyChars == KeyStartChars \cup Digits

\* The length of the run of characters of the set from position i of s on.
RECURSIVE RunLen(_, _, _)
RunLen(s, i, set) ==
  IF i <= Len(s) /\ s[i] \in set THEN 1 + RunLen(s, i + 1, set) ELSE 0

Spaces == {" "}

\* The part of s from position i to its end.
From_(s, i) == SubSeq(s, i, Len(s))

\* SubSeq that is empty when the range leaves s.
Slice(s, i, j) == IF i >= 1 /\ j <= Len(s) THEN SubSeq(s, i, j) ELSE <<>>

BangProtected == <<"!", "p", "r", "o", "t", "e", "c", "t", "e", "d">>
AtUnset == <<"@", "u", "n", "s", "e", "t">>

NoMatch == [ok |-> FALSE]

\* line.match(/^(\s*)!protected\s+(.+)$/): the text of group 2.
ProtectedMatch(line) ==
  LET ws == RunLen(line, 1, Spaces)
      p == ws + Len(BangProtected) + 1
      r == RunLen(line, p, Spaces)
  IN IF Slice(line, ws + 1, p - 1) = BangProtected /\ r >= 1
     THEN IF p + r <= Len(line) THEN [ok |-> TRUE, content |-> From_(line, p + r)]
          ELSE IF r >= 2 THEN [ok |-> TRUE, content |-> <<" ">>]
          ELSE NoMatch
     ELSE NoMatch

\* content.match(/^([A-Z_][A-Z0-9_]*)\s*(=\s*@unset|[?+]?=)(.*)$/)
OperatorMatch(content) ==
  LET n == IF content # <<>> /\ content[1] \in KeyStartChars
           THEN 1 + RunLen(content, 2, KeyChars) ELSE 0
      o == n + RunLen(content, n + 1, Spaces) + 1
      u == RunLen(content, o + 1, Spaces)
      at(i) == IF i <= Len(content) THEN content[i] ELSE ""
  IN IF n = 0 THEN NoMatch
     ELSE IF at(o) = "=" /\ Slice(content, o + u + 1, o + u + 6) = AtUnset
     THEN [ok |-> TRUE, key |-> SubSeq(content, 1, n), operator |-> "@unset",
           rest |-> From_(content, o + u + 7)]
     ELSE IF at(o) \in {"?", "+"} /\ at(o + 1) = "="
     THEN [ok |-> TRUE, key |-> SubSeq(content, 1, n),
           operator |-> at(o) \o "=", rest |-> From_(content, o + 2)]
     ELSE IF at(o) = "="
     THEN [ok |-> TRUE, key |-> SubSeq(content, 1, n), operator |-> "=",
           rest |-> From_(content, o + 1)]
     ELSE NoMatch

\* parseAssignment(line) up to the expression: null (ok = FALSE) when the
\* line, as given, does not match; else the pieces ParseAssignment takes.
MatchAssignment(line) ==
  LET prot == ProtectedMatch(line)
      m == OperatorMatch(IF prot.ok THEN prot.content ELSE line)
  IN IF m.ok
     THEN [ok |-> TRUE, kind |-> "assignment", protected |-> prot.ok,
           key |-> Join(m.key), operator |-> m.operator, rest |-> m.rest]
     ELSE NoMatch

\* MatchAssignment on the trimmed line.
MatchAssignment_Trimmed(line) ==
  LET prot == ProtectedMatch(Trim(line))
      m == OperatorMatch(IF prot.ok THEN prot.content ELSE Trim(line))
  IN IF m.ok
     THEN [ok |-> TRUE, kind |-> "assignment", protected |-> prot.ok,
           key |-> Join(m.key), operator |-> m.operator, rest |-> m.rest]
     ELSE NoMatch

\* s.split(/\s+/) of a trimmed, non-empty text.
RECURSIVE SplitSpaces(_)
SplitSpaces(s) ==
  LET n == RunLen(s, 1, {c \in {s[i] : i \in 1..Len(s)} : c # " "})
  IN IF n = Len(s) THEN <<s>>
     ELSE <<SubSeq(s, 1, n)>> \o SplitSpaces(TrimStart(From_(s, n + 1)))

\* s.split(":")
RECURSIVE SplitColon(_)
SplitColon(s) ==
  LET i == IndexOfChar(s, ":", 1)
  IN IF i = 0 THEN <<Join(s)>>
     ELSE <<Join(SubSeq(s, 1, i - 1))>> \o SplitColon(From_(s, i + 1))

\* The words of a section header as ParseSection takes them.
SectionParts(trimmed) ==
  LET inner == Trim(SubSeq(trimmed, 2, Len(trimmed) - 1))
      words == IF inner = <<>> THEN <<<<>>>> ELSE SplitSpaces(inner)
  IN [i \in 1..Len(words) |-> SplitColon(words[i])]

\* parseSection throws "Invalid section type" for a type other than scope.
SectionThrows(parts) == Len(parts[1]) > 1 /\ parts[1][1] # "scope"

\* The position of the last "{" of s at or after position 2, 0 when none.
RECURSIVE LastBrace(_, _)
LastBrace(s, i) ==
  IF i < 2 THEN 0 ELSE IF s[i] = "{" THEN i ELSE LastBrace(s, i - 1)

\* /@from\s+(\S+)\s*{/ tried at position i: group 1.
MatchFromAt(line, i) ==
  LET s == RunLen(line, i + 5, Spaces)
      t == i + 5 + s
      n == RunLen(line, t, {c \in {line[k] : k \in 1..Len(line)} : c # " "})
      token == SubSeq(line, t, t + n - 1)
      after == t + n + RunLen(line, t + n, Spaces)
  IN IF Slice(line, i, i + 4) = <<"@", "f", "r", "o", "m">> /\ s >= 1 /\ n >= 1
     THEN IF after <= Len(line) /\ line[after] = "{"
          THEN [ok |-> TRUE, baseUri |-> token]
          ELSE IF LastBrace(token, n) # 0
          THEN [ok |-> TRUE, baseUri |-> SubSeq(token, 1, LastBrace(token, n) - 1)]
          ELSE NoMatch
     ELSE NoMatch

\* /@if\s+(.+?)\s*{/ tried at position i: group 1.
MatchIfAt(line, i) ==
  LET s == RunLen(line, i + 3, Spaces)
      t == i + 3 + s
      b == IndexOfChar(line, "{", t + 1)
  IN IF Slice(line, i, i + 2) = <<"@", "i", "f">> /\ s >= 1
     THEN IF t <= Len(line) /\ b # 0
          THEN [ok |-> TRUE,
                condition |-> <<line[t]>> \o TrimEnd(SubSeq(line, t + 1, b - 1))]
          ELSE IF s >= 2 /\ t <= Len(line) /\ line[t] = "{"
          THEN [ok |-> TRUE, condition |-> <<" ">>]
          ELSE NoMatch
     ELSE NoMatch

\* /with\s+(\w+)\s*\(([^)]*)\)\s*{/ tried at position i: groups 1 and 2.
MatchWithAt(line, i) ==
  LET s == RunLen(line, i + 4, Spaces)
      t == i + 4 + s
      n == RunLen(line, t, WordChars)
      open == t + n + RunLen(line, t + n, Spaces)
      close == IndexOfChar(line, ")", open + 1)
      brace == close + 1 + RunLen(line, close + 1, Spaces)
  IN IF /\ Slice(line, i, i + 3) = <<"w", "i", "t", "h">>
        /\ s >= 1 /\ n >= 1
        /\ open <= Len(line) /\ line[open] = "("
        /\ close # 0
        /\ brace <= Len(line) /\ line[brace] = "{"
     THEN [ok |-> TRUE, provider |-> Join(SubSeq(line, t, t + n - 1)),
           args |-> ParseArgs(SubSeq(line, open + 1, close - 1))]
     ELSE NoMatch

\* The first position of a set of positions.
Leftmost(hits) == CHOOSE k \in hits : \A j \in hits : k <= j

\* line.match(regex) for the three header expressions: the match at the
\* first position where one succeeds, as a one-element sequence, or the
\* empty sequence.
FirstFromMatch(line) ==
  LET hits == {k \in 1..Len(line) : MatchFromAt(line, k).ok}
  IN IF hits = {} THEN <<>> ELSE <<MatchFromAt(line, Leftmost(hits))>>

FirstIfMatch(line) ==
  LET hits == {k \in 1..Len(line) : MatchIfAt(line, k).ok}
  IN IF hits = {} THEN <<>> ELSE <<MatchIfAt(line, Leftmost(hits))>>

FirstWithMatch(line) ==
  LET hits == {k \in 1..Len(line) : MatchWithAt(line, k).ok}
  IN IF hits = {} THEN <<>> ELSE <<MatchWithAt(line, Leftmost(hits))>>

IsBlockEnd(line) == Trim(line) = <<"}">>

\* What a parser does at a line: it adds nodes and moves on (status "ok"),
\* throws (the status is the error), or enters parseIfDirective or
\* parseWithDirective (status "if" or "with", head = the header's fields).
Threw(error, cur) == [status |-> error, nodes |-> <<>>, cur |-> cur]

Parsed(nodes, cur) == [status |-> "ok", nodes |-> nodes, cur |-> cur]

Entered(kind, head, cur) ==
  [status |-> kind, nodes |-> <<>>, cur |-> cur, head |-> head]

\* The assignment node of a matched line, or the ParseError of a provider
\* reference of no known form.
AssignmentNode(m, cur) ==
  LET a == ParseAssignment(m, cur)
  IN IF a.expression.provider.kind = "invalid" THEN Threw("ParseError", cur)
     ELSE Parsed(<<[type |-> "assignment", data |-> a]>>, cur + 1)

\* parseFromDirective, lines 166-180: the body lines up to the first "}" or
\* the end of the input, blank lines and comments left out.
RECURSIVE FromLoop(_, _, _)
FromLoop(lines, cur, body) ==
  IF cur > Len(lines) THEN [body |-> body, cur |-> cur]
  ELSE IF IsBlockEnd(lines[cur]) THEN [body |-> body, cur |-> cur + 1]
  ELSE LET line == Trim(lines[cur])
       IN FromLoop(lines, cur + 1,
            IF line # <<>> /\ line[1] # "#" THEN Append(body, line) ELSE body)

DirectiveNode(data) == <<[type |-> "directive", data |-> data]>>

\* parseDirective at line cur.
ParseDirective(lines, cur) ==
  LET line == Trim(lines[cur])
      fromMatch == FirstFromMatch(line)
      ifMatch == FirstIfMatch(line)
  IN IF StartsWith(line, <<"@", "i", "n", "c", "l", "u", "d", "e", " ">>)
     THEN Parsed(DirectiveNode([type |-> "include",
                                path |-> Unquote(Trim(From_(line, 10))),
                                location |-> cur]), cur + 1)
     ELSE IF StartsWith(line, <<"@", "i", "m", "p", "o", "r", "t", " ">>)
     THEN LET rest == Trim(From_(line, 9))
              parts == IF rest = <<>> THEN <<<<>>>> ELSE SplitSpaces(rest)
          IN Parsed(DirectiveNode(
                      [type |-> "import",
                       uri |-> parts[1],
                       prefix |-> ImportOption(parts, 2, <<"p", "r", "e", "f", "i", "x">>, <<>>),
                       case |-> ImportOption(parts, 2, <<"c", "a", "s", "e">>, <<>>),
                       location |-> cur]), cur + 1)
     ELSE IF StartsWith(line, <<"@", "f", "r", "o", "m", " ">>)
     THEN IF fromMatch = <<>> THEN Threw("ParseError", cur)
          ELSE LET b == FromLoop(lines, cur + 1, <<>>)
               IN Parsed(DirectiveNode(
                           [type |-> "from",
                            baseUri |-> fromMatch[1].baseUri,
                            mappings |-> FromMappings(b.body, 1, <<>>),
                            location |-> cur]), b.cur)
     ELSE IF StartsWith(line, <<"@", "i", "f", " ">>)
     THEN IF ifMatch = <<>> THEN Threw("ParseError", cur)
          ELSE Entered("if", [type |-> "if", condition |-> ifMatch[1].condition,
                              location |-> cur], cur + 1)
     ELSE Threw("ParseError", cur)

\* parseWithDirective at line cur, up to its loop.
ParseWithDirective(lines, cur) ==
  LET withMatch == FirstWithMatch(Trim(lines[cur]))
  IN IF withMatch = <<>> THEN Threw("ParseError", cur)
     ELSE Entered("with", [type |-> "with", provider |-> withMatch[1].provider,
                           args |-> withMatch[1].args, location |-> cur], cur + 1)

\* parseSingleNode at line cur.  Reading a line past the end of the input
\* gives undefined, and undefined.trim() throws a TypeError.
ParseSingleNode(lines, cur) ==
  IF cur > Len(lines) THEN Threw("TypeError", cur)
  ELSE LET trimmed == Trim(lines[cur])
           m == MatchAssignment(lines[cur])
       IN IF trimmed = <<>> THEN Parsed(<<>>, cur + 1)
          ELSE IF trimmed[1] = "#" THEN Parsed(<<[type |-> "comment"]>>, cur + 1)
          ELSE IF trimmed[1] = "@" THEN ParseDirective(lines, cur)
          ELSE IF m.ok THEN AssignmentNode(m, cur)
          ELSE Parsed(<<>>, cur + 1)

\* One iteration of the loop of parse, lines 35-76, at line cur.
ParseLine(lines, cur) ==
  LET trimmed == Trim(lines[cur])
      m == MatchAssignment(lines[cur])
  IN IF trimmed = <<>> THEN Parsed(<<>>, cur + 1)
     ELSE IF trimmed[1] = "#" THEN Parsed(<<[type |-> "comment"]>>, cur + 1)
     ELSE IF trimmed[1] = "[" /\ trimmed[Len(trimmed)] = "]"
     THEN IF SectionThrows(SectionParts(trimmed)) THEN Threw("ParseError", cur)
          ELSE Parsed(<<[type |-> "section",
                         data |-> ParseSection(SectionParts(trimmed), cur)]>>,
                      cur + 1)
     ELSE IF trimmed[1] = "@" THEN ParseDirective(lines, cur)
     ELSE IF StartsWith(trimmed, <<"w", "i", "t", "h", " ">>)
     THEN ParseWithDirective(lines, cur)
     ELSE IF m.ok THEN AssignmentNode(m, cur)
     ELSE Parsed(<<>>, cur + 1)

\* The calls in progress, outermost first.  A frame is the loop of parse
\* (kind "top") or of a block directive (kind "if" or "with"): cur is
\* this.currentLine of the parser running the loop, temp is
\* tempParser.currentLine of parseIfDirective, body the nodes gathered.
TopFrame(cur) ==
  [kind |-> "top", cur |-> cur, temp |-> cur, body |-> <<>>, head |-> <<>>]

\* The frame of the block directive entered by r.  parseIfDirective makes
\* tempParser start at the line after the header.
BlockFrame(r) ==
  [kind |-> r.status, cur |-> r.cur, temp |-> r.cur, body |-> <<>>, head |-> r.head]

\* The directive a block frame returns.
BlockNode(f) ==
  [type |-> "directive",
   data |-> IF f.kind = "if"
            THEN [type |-> "if", condition |-> f.head.condition, body |-> f.body,
                  location |-> f.head.location]
            ELSE [type |-> "with", provider |-> f.head.provider,
                  args |-> f.head.args, body |-> f.body,
                  location |-> f.head.location]]

\* The caller's frame once a block directive has returned node with the
\* parser it ran on at line cur: that parser is tempParser for the loop of
\* parseIfDirective and the caller's own parser otherwise.
Resume(f, node, cur) ==
  IF f.kind = "if"
  THEN [f EXCEPT !.temp = cur, !.body = Append(@, node)]
  ELSE [f EXCEPT !.cur = cur, !.body = Append(@, node)]

\* The frame after a step r of its loop that gave status "ok".
\* parseIfDirective, lines 205-217: the loop tests the line of this parser,
\* which stays where it is, while tempParser moves on.
\* parseWithDirective, lines 238-251: a line that gives no node is stepped
\* over by parseSingleNode and then once more by the loop.
Advance(f, r) ==
  IF f.kind = "if"
  THEN [f EXCEPT !.temp = r.cur, !.body = @ \o r.nodes]
  ELSE IF f.kind = "with"
  THEN [f EXCEPT !.cur = IF r.nodes # <<>> THEN r.cur ELSE r.cur + 1,
                 !.body = @ \o r.nodes]
  ELSE [f EXCEPT !.cur = r.cur, !.body = @ \o r.nodes]

\* The step of the loop of frame f.
LoopStep(lines, f) ==
  IF f.kind = "top" THEN ParseLine(lines, f.cur)
  ELSE ParseSingleNode(lines, IF f.kind = "if" THEN f.temp ELSE f.cur)

\* The loop of frame f ends: the input is over, or a block is at its "}".
LoopEnds(lines, f) ==
  \/ f.cur > Len(lines)
  \/ f.kind # "top" /\ IsBlockEnd(lines[f.cur])

\* A frame that stands for an error thrown out of every call in progress.
ThrowFrame(r) ==
  [kind |-> "threw", cur |-> r.cur, temp |-> r.cur, body |-> <<>>,
   head |-> r.status]

\* The calls in progress after the step r of the loop of frame f: the loop
\* goes on, a block directive is entered, or the error leaves every loop.
AfterStep(frames, f, r) ==
  IF r.status = "ok"
  THEN Append(SubSeq(frames, 1, Len(frames) - 1), Advance(f, r))
  ELSE IF r.status \in {"if", "with"} THEN Append(frames, BlockFrame(r))
  ELSE <<ThrowFrame(r)>>

\* The calls in progress once the loop of block frame f has ended: its
\* directive goes to the caller, past the "}" when there is one.
AfterBlock(lines, frames, f) ==
  SubSeq(frames, 1, Len(frames) - 2)
    \o <<Resume(frames[Len(frames) - 1], BlockNode(f),
                IF f.cur > Len(lines) THEN f.cur ELSE f.cur + 1)>>

\* One iteration of the innermost loop in progress.
ParserStep(lines, frames, f) ==
  IF LoopEnds(lines, f) THEN AfterBlock(lines, frames, f)
  ELSE AfterStep(frames, f, LoopStep(lines, f))

\* parse, parseIfDirective and parseWithDirective run to the end: the
\* ParsedFile's nodes or the error thrown.
RECURSIVE RunParser(_, _)
RunParser(lines, frames) ==
  LET f == frames[Len(frames)]
  IN IF f.kind = "threw" THEN Threw(f.head, f.cur)
     ELSE IF f.kind = "top" /\ LoopEnds(lines, f) THEN Parsed(f.body, f.cur)
     ELSE RunParser(lines, ParserStep(lines, frames, f))

\* parse from line cur on.
ParseFrom(lines, cur) == RunParser(lines, <<TopFrame(cur)>>)

\* new Parser(content, file).parse() for content.split("\n") = lines.
ParseText(lines) == ParseFrom(lines, 1)

(***************************************************************************)
(* Interpolation (src/src/core/interpolate.ts)                             *)
(***************************************************************************)

\* Number of consecutive characters other than "}" from position i on: the
\* greedy group ([^}]+).
RECURSIVE NameRunLen(_, _)
NameRunLen(value, i) ==
  IF i <= Len(value) /\ value[i] # "}" THEN 1 + NameRunLen(value, i + 1) ELSE 0

\* Substitute with the parent environment consulted first.
Substitute_ParentFirst(match, key, definedEnv, parentEnv) ==
  LET k == Join(Trim(key))
  IN IF k \in DOMAIN parentEnv THEN parentEnv[k]
     ELSE IF k \in DOMAIN definedEnv THEN definedEnv[k]
     ELSE match

\* The replace callback: key = key.trim(), the defined environment first,
\* then the parent environment, else the match itself.
Substitute(match, key, definedEnv, parentEnv) ==
  LET k == Join(Trim(key))
  IN IF k \in DOMAIN definedEnv THEN definedEnv[k]
     ELSE IF k \in DOMAIN parentEnv THEN parentEnv[k]
     ELSE match

\* value.replace(/\$\{([^}]+)\}/g, callback) from position i on.
RECURSIVE InterpolateFrom(_, _, _, _)
InterpolateFrom(value, i, definedEnv, parentEnv) ==
  IF i > Len(value) THEN <<>>
  ELSE IF i < Len(value) /\ value[i] = "$" /\ value[i + 1] = "{"
       THEN LET n == NameRunLen(value, i + 2)
            IN IF n >= 1 /\ i + 2 + n <= Len(value)
               THEN Substitute(SubSeq(value, i, i + 2 + n),
                               SubSeq(value, i + 2, i + 1 + n),
                               definedEnv, parentEnv)
                      \o InterpolateFrom(value, i + 3 + n, definedEnv, parentEnv)
               ELSE <<value[i]>> \o InterpolateFrom(value, i + 1, definedEnv, parentEnv)
       ELSE <<value[i]>> \o InterpolateFrom(value, i + 1, definedEnv, parentEnv)

interpolate(value, definedEnv, parentEnv) ==
  InterpolateFrom(value, 1, definedEnv, parentEnv)

(***************************************************************************)
(* Pipes (src/src/core/pipes)                                              *)
(***************************************************************************)

\* The built-in pipes the model registers.
PipeRegistry == {"trim", "upper", "lower", "json"}

RECURSIVE MapChars(_, _)
MapChars(s, up) ==
  IF s = <<>> THEN <<>>
  ELSE <<IF up THEN UpperChar(Head(s)) ELSE LowerChar(Head(s))>> \o MapChars(Tail(s), up)

\* The decimal text of a position in a value.
PositionText(n) ==
  CASE n = 0 -> "0" [] n = 1 -> "1" [] n = 2 -> "2" [] n = 3 -> "3"
    [] n = 4 -> "4" [] n = 5 -> "5" [] n = 6 -> "6" [] n = 7 -> "7"
    [] OTHER -> "8"

\* The length of the run of digits of str from position i on.
RECURSIVE DigitRun(_, _)
DigitRun(str, i) ==
  IF i <= Len(str) /\ str[i] \in Digits THEN 1 + DigitRun(str, i + 1) ELSE 0

\* The position of the quote closing the string opened before position i,
\* 0 when there is none (no escapes in the values considered).
RECURSIVE ClosingQuote(_, _)
ClosingQuote(str, i) ==
  IF i > Len(str) THEN 0
  ELSE IF str[i] = "\"" THEN i ELSE ClosingQuote(str, i + 1)

\* JSON.parse(str) for texts without whitespace made of digits, quotes and
\* letters: the message of the SyntaxError it throws (as V8 words it), or
\* the empty text when str is a number or a string literal.
JSONParseMessage(str) ==
  LET unexpected(c) ==
        "Unexpected token '" \o c \o "', \"" \o Join(str) \o "\" is not valid JSON"
      after(n) ==
        IF n = Len(str) THEN ""
        ELSE "Unexpected non-whitespace character after JSON at position "
               \o PositionText(n)
  IN IF str = <<>> THEN "Unexpected end of JSON input"
     ELSE IF str[1] = "\""
     THEN LET q == ClosingQuote(str, 2)
          IN IF q = 0
             THEN "Unterminated string in JSON at position " \o PositionText(Len(str))
             ELSE after(q)
     ELSE IF str[1] \in Digits
     THEN IF str[1] = "0" THEN after(1) ELSE after(DigitRun(str, 1))
     ELSE unexpected(str[1])

\* JSONPipe.apply without a path: "Failed to parse JSON: <message>" when
\* JSON.parse throws, the empty text otherwise.  The other pipes of the
\* registry never throw.
PipeError(name, input) ==
  IF name = "json" /\ JSONParseMessage(input) # ""
  THEN "Failed to parse JSON: " \o JSONParseMessage(input)
  ELSE ""

\* pipe.apply(input) of a registered pipe that does not throw; for "json"
\* without a path, JSON.stringify(JSON.parse(input)), the text itself for a
\* number or a string literal without escapes.
PipeApply(name, input) ==
  CASE name = "trim" -> Trim(input)
    [] name = "upper" -> MapChars(input, TRUE)
    [] name = "lower" -> MapChars(input, FALSE)
    [] name = "json" -> input

(***************************************************************************)
(* Paths (@std/path).  A path is its sequence of segments; the first       *)
(* segment of an absolute path is the empty text before the leading "/".   *)
(***************************************************************************)

\* chars.split("/"), each segment as text.
RECURSIVE SplitPath(_)
SplitPath(chars) ==
  LET i == IndexOfChar(chars, "/", 1)
  IN IF i = 0 THEN <<Join(chars)>>
     ELSE <<Join(SubSeq(chars, 1, i - 1))>> \o SplitPath(SubSeq(chars, i + 1, Len(chars)))

IsAbsolute(p) == p # <<>> /\ p[1] = ""

\* normalize: "." and empty segments dropped, ".." removes the segment before.
RECURSIVE NormalizeFrom(_, _, _)
NormalizeFrom(p, i, acc) ==
  IF i > Len(p) THEN acc
  ELSE IF p[i] \in {"", "."} THEN NormalizeFrom(p, i + 1, acc)
  ELSE IF p[i] = ".."
       THEN NormalizeFrom(p, i + 1,
              IF Len(acc) > 1 THEN SubSeq(acc, 1, Len(acc) - 1) ELSE acc)
  ELSE NormalizeFrom(p, i + 1, Append(acc, p[i]))

\* The working directory, which the CLI also gives to OverlayResolver.
BaseDir == <<"", "w">>

\* resolve(dir, p)
ResolveFrom(dir, p) == NormalizeFrom(IF IsAbsolute(p) THEN p ELSE dir \o p, 1, <<"">>)

\* resolve(p)
Resolve(p) == ResolveFrom(BaseDir, p)

\* join(dir, name)
JoinPath(dir, p) ==
  IF IsAbsolute(dir) THEN NormalizeFrom(dir \o p, 1, <<"">>)
  ELSE NormalizeFrom(dir \o p, 1, <<>>)

\* `${absolutePath} (included)`
TagIncluded(absolutePath) ==
  [absolutePath EXCEPT ![Len(absolutePath)] = @ \o " (included)"]

(***************************************************************************)
(* State                                                                   *)
(***************************************************************************)
VARIABLES
  content,        \* the text handed to the Parser, as lines
  options,        \* CLIOptions: file, profile, scopes, overlays, pure, force
  parentEnv,      \* Deno.env.toObject()
  policy,         \* the Policy given to the Evaluator: the effect of each hook,
                  \* or the JSONPolicyConfig of a JSONPolicy
  fs,             \* the files on disk: absolute path -> lines
  pc,             \* position in the pipeline
  resolvedFiles,  \* resolveFiles: the returned list
  topIdx,         \* parseAllFiles: index of the resolved file being parsed
  processedIncludes, \* parseAllFiles: processedIncludes
  stack,          \* the active calls of parseFileWithIncludes, innermost last
  conflicts,      \* detectConflicts: the returned map, in insertion order
  files,          \* ParsedFile[] given to evaluate
  fileIdx,        \* evaluate: index of the file being walked
  nodeIdx,        \* evaluateFile: index of the node being visited
  currentSection, \* evaluateFile: currentSection
  env,            \* Evaluator.env
  metadata,       \* Evaluator.metadata
  metaOrder,      \* the keys of Evaluator.metadata in insertion order
  warnings,       \* Evaluator.warnings
  errors,         \* Evaluator.errors
  assignmentLog,  \* Evaluator.assignmentLog, in insertion order of the keys
  resolveIdx,     \* resolveExpressions: index of the key being folded
  withContext,    \* Evaluator.withContext: provider name -> default arguments
  trace,          \* the calls received by the policy hooks, providers and pipes
  value,          \* the argument of a direct call of a function
  output,         \* the value returned by a direct call of a function
  cacheEntries,   \* MemoryCache.entries: key -> CacheEntry
  cleanupInterval, \* MemoryCache.cleanupInterval: whether the timer is set
  now,            \* Date.now(), in milliseconds since the construction
  written         \* history: key -> the latest set of the key that no
                  \* delete, clear or destroy has followed

inputVars == <<content, options, parentEnv, policy, fs>>

cacheVars == <<cacheEntries, cleanupInterval, now, written>>

overlayVars == <<resolvedFiles, topIdx, processedIncludes, stack, conflicts>>

vars ==
  <<inputVars, overlayVars, pc, files, fileIdx, nodeIdx, currentSection,
    env, metadata, metaOrder, warnings, errors, assignmentLog, resolveIdx, withContext,
    trace, value, output, cacheVars>>

EmptyMap == <<>>

\* No MemoryCache has been constructed.
NoCache ==
  /\ cacheEntries = EmptyMap
  /\ cleanupInterval = FALSE
  /\ now = 0
  /\ written = EmptyMap

Put(m, k, v) == (k :> v) @@ m

Delete(m, k) == [x \in (DOMAIN m) \ {k} |-> m[x]]

\* The keys of an object after obj[k] = v: a new key goes last.
OrderPut(order, k) ==
  IF \E i \in 1..Len(order) : order[i] = k THEN order ELSE Append(order, k)

\* The keys of an object after delete obj[k].
OrderDelete(order, k) == SelectSeq(order, LAMBDA x : x # k)

NoSection == [type |-> "none", name |-> "", extends |-> <<>>, location |-> 0]

SourcePath == "<memory>"

(***************************************************************************)
(* Policy (src/src/core/policy.ts) and the hooks as the Evaluator calls    *)
(* them.  A policy is given by the effect each of its hooks returns.       *)
(***************************************************************************)
DefaultPolicy ==
  [onStart |-> "allow", onProvider |-> "allow", onPipe |-> "allow",
   onKeyInject |-> "allow", onFinish |-> "allow"]

\* The reason carried by a deny or warn effect.
Reason == "rule"

OnStartEffect == policy.onStart
OnProviderEffect(ref) == policy.onProvider
OnPipeEffect(pipeCall) == policy.onPipe
OnKeyInjectEffect(key) == policy.onKeyInject
OnFinishEffect == policy.onFinish

\* The side effects of resolving an expression: calls received and warnings.
Called(eff, what, subject) == [eff EXCEPT !.trace = Append(@, <<what, subject>>)]

Warned(eff, message) == [eff EXCEPT !.warnings = Append(@, message)]

NoEffects == [trace |-> <<>>, warnings |-> <<>>]

(***************************************************************************)
(* Providers (src/src/core/providers/index.ts, builtins)                   *)
(***************************************************************************)
ProviderRegistry == {"gcp", "op", "env", "file", "json", "base64decode"}

GetProviderName(ref) == IF ref.kind = "uri" THEN ref.scheme ELSE ref.fn

\* args.name || args.value || ""
EnvVarOf(ref) ==
  IF ref.kind = "uri"
  THEN IF StartsWith(ref.uri, <<"e", "n", "v", ":", "/", "/">>)
       THEN Join(SubSeq(ref.uri, 7, Len(ref.uri))) ELSE Join(ref.uri)
  ELSE IF "name" \in DOMAIN ref.args /\ ref.args["name"] # <<>>
       THEN Join(ref.args["name"])
  ELSE IF "value" \in DOMAIN ref.args /\ ref.args["value"] # <<>>
       THEN Join(ref.args["value"])
  ELSE ""

\* EnvProvider.resolveSingle: [ok, value, error]
EnvResolveSingle(ref) ==
  LET envVar == EnvVarOf(ref)
  IN IF envVar \in DOMAIN parentEnv
     THEN [ok |-> TRUE, value |-> parentEnv[envVar], error |-> ""]
     ELSE IF ref.kind # "uri" /\ "default" \in DOMAIN ref.args
          THEN [ok |-> TRUE, value |-> ref.args["default"], error |-> ""]
          ELSE [ok |-> FALSE, value |-> <<>>,
                error |-> "Environment variable " \o envVar \o " not found"]

\* provider.resolveSingle.  The explored inputs call the env provider only;
\* the other registered providers read files or remote services.
ResolveSingle(name, ref) ==
  IF name = "env" THEN EnvResolveSingle(ref)
  ELSE [ok |-> FALSE, value |-> <<>>, error |-> name \o " is not available"]

(***************************************************************************)
(* Evaluator (src/src/core/cache/memory.ts, class Evaluator)               *)
(***************************************************************************)

\* expandScopes: every scope given is added once; "extends" is not followed.
ExpandScopes(scopes, visited) ==
  {scopes[i] : i \in {j \in 1..Len(scopes) : scopes[j] \notin visited}}

\* ShouldProcessNode with an empty scope request permitting every scope.
ShouldProcessNode_NoRequestPermits(node, section) ==
  IF section.type = "none" THEN TRUE
  ELSE IF section.type = "profile"
       THEN \/ options.profile = ""
            \/ section.name = "default"
            \/ section.name = options.profile
  ELSE IF section.type = "scope"
       THEN IF Len(options.scopes) = 0 THEN TRUE
            ELSE LET scopeNames == ExpandScopes(<<section.name>>, {})
                 IN \E i \in 1..Len(options.scopes) : options.scopes[i] \in scopeNames
  ELSE TRUE

\* ShouldProcessNode with a requested profile also excluding [default].
ShouldProcessNode_DefaultNotSpecial(node, section) ==
  IF section.type = "none" THEN TRUE
  ELSE IF section.type = "profile"
       THEN \/ options.profile = ""
            \/ section.name = options.profile
  ELSE IF section.type = "scope"
       THEN IF Len(options.scopes) = 0 THEN FALSE
            ELSE LET scopeNames == ExpandScopes(<<section.name>>, {})
                 IN \E i \in 1..Len(options.scopes) : options.scopes[i] \in scopeNames
  ELSE TRUE

ShouldProcessNode(node, section) ==
  IF section.type = "none" THEN TRUE
  ELSE IF section.type = "profile"
       THEN \/ options.profile = ""
            \/ section.name = "default"
            \/ section.name = options.profile
  ELSE IF section.type = "scope"
       THEN IF Len(options.scopes) = 0 THEN FALSE
            ELSE LET scopeNames == ExpandScopes(<<section.name>>, {})
                 IN \E i \in 1..Len(options.scopes) : options.scopes[i] \in scopeNames
  ELSE TRUE

\* LogPush with the new entry put before the earlier ones of its key.
LogPush_Front(log, key, entry) ==
  IF \E i \in 1..Len(log) : log[i].key = key
  THEN [i \in 1..Len(log) |->
          IF log[i].key = key
          THEN [log[i] EXCEPT !.entries = <<entry>> \o @]
          ELSE log[i]]
  ELSE Append(log, [key |-> key, entries |-> <<entry>>])

\* assignmentLog.get(key) || []; list.push(entry); assignmentLog.set(key, list)
LogPush(log, key, entry) ==
  IF \E i \in 1..Len(log) : log[i].key = key
  THEN [i \in 1..Len(log) |->
          IF log[i].key = key
          THEN [log[i] EXCEPT !.entries = Append(@, entry)]
          ELSE log[i]]
  ELSE Append(log, [key |-> key, entries |-> <<entry>>])

\* processAssignment on st = [assignmentLog, metadata, metaOrder, env, warnings].
ProcessAssignment(st, assignment, source) ==
  LET key == assignment.key
      logged == [st EXCEPT !.assignmentLog =
                   LogPush(@, key, [assignment |-> assignment, source |-> source])]
  IN IF assignment.operator = "@unset" THEN logged
     ELSE IF /\ key \in DOMAIN st.metadata
             /\ st.metadata[key].protected
             /\ ~options.force
          THEN [logged EXCEPT !.warnings =
                  Append(@, "Cannot override protected key: " \o key)]
     ELSE IF assignment.operator = "?=" /\ key \in DOMAIN st.env THEN logged
     ELSE [logged EXCEPT
             !.metadata = Put(@, key,
                [value |-> <<>>, source |-> source, transforms |-> <<>>,
                 provider |-> IF assignment.expression.provider.kind # "none"
                              THEN GetProviderName(assignment.expression.provider)
                              ELSE "",
                 protected |-> assignment.options.protected]),
             !.metaOrder = OrderPut(@, key),
             !.env = IF key \in DOMAIN @ THEN @ ELSE Put(@, key, <<>>)]

\* uri.split("://")[0]
SchemeOf(uri) ==
  LET e == IndexOfScheme(uri, 1)
  IN Join(IF e = 0 THEN uri ELSE SubSeq(uri, 1, e - 1))

\* The registered providers that implement resolveBatch.
BatchProviders == {"gcp", "op"}

\* getProviderFromUri: throws "Unknown provider" for an unregistered scheme.
GetProviderFromUriThrows(uri) == SchemeOf(uri) \notin ProviderRegistry

\* processImport, lines 281-301: the keys of the batch result written to
\* env and metadata with the prefix and the case of the directive.
RECURSIVE WriteBatch(_, _, _, _, _, _)
WriteBatch(st, result, i, directive, source, name) ==
  IF i > Len(result) THEN st
  ELSE LET prefixed == directive.prefix \o result[i][1]
           finalKey == Join(IF directive.case = <<"u", "p", "p", "e", "r">>
                            THEN MapChars(prefixed, TRUE)
                            ELSE IF directive.case = <<"l", "o", "w", "e", "r">>
                            THEN MapChars(prefixed, FALSE)
                            ELSE prefixed)
       IN WriteBatch(
            [st EXCEPT
               !.env = Put(@, finalKey, result[i][2]),
               !.metadata = Put(@, finalKey,
                  [value |-> result[i][2], source |-> source, transforms |-> <<>>,
                   provider |-> name, protected |-> FALSE]),
               !.metaOrder = OrderPut(@, finalKey)],
            result, i + 1, directive, source, name)

\* processImport on st, the fields of the Evaluator and threw, which tells
\* that an error has left the directive;
\* outcome is what provider.resolveBatch does: it throws or returns a result.
ProcessImport(st, directive, source, outcome) ==
  LET name == SchemeOf(directive.uri)
  IN IF GetProviderFromUriThrows(directive.uri) THEN [st EXCEPT !.threw = TRUE]
     ELSE IF name \notin BatchProviders
     THEN [st EXCEPT !.errors =
             Append(@, "Provider " \o name \o " does not support batch operations")]
     ELSE LET called == [st EXCEPT !.trace = Append(@, <<"resolveBatch", name>>)]
          IN IF outcome.threw THEN [called EXCEPT !.threw = TRUE]
             ELSE WriteBatch(called, outcome.result, 1, directive, source, name)

\* processFrom, lines 311-329: one resolveSingle per mapping, its failure
\* recorded and the loop going on.
RECURSIVE ResolveMappings(_, _, _, _, _)
ResolveMappings(st, directive, i, source, name) ==
  IF i > Len(directive.mappings) THEN st
  ELSE LET key == directive.mappings[i].key
           uri == directive.baseUri \o <<"/">> \o directive.mappings[i].path
           r == ResolveSingle(name, [kind |-> "uri", scheme |-> name, uri |-> uri])
           called == [st EXCEPT !.trace = Append(@, <<"resolveSingle", name>>)]
       IN ResolveMappings(
            IF r.ok
            THEN [called EXCEPT
                    !.env = Put(@, key, r.value),
                    !.metadata = Put(@, key,
                       [value |-> r.value, source |-> source, transforms |-> <<>>,
                        provider |-> name, protected |-> FALSE]),
                    !.metaOrder = OrderPut(@, key)]
            ELSE [called EXCEPT !.errors =
                    Append(@, "Failed to resolve " \o key \o ": " \o r.error)],
            directive, i + 1, source, name)

\* processFrom on st.
ProcessFrom(st, directive, source) ==
  IF GetProviderFromUriThrows(directive.baseUri) THEN [st EXCEPT !.threw = TRUE]
  ELSE ResolveMappings(st, directive, 1, source, SchemeOf(directive.baseUri))

\* The loops of processWith and processIf over the body: the assignment
\* nodes are processed, every other node is passed over.
RECURSIVE ProcessBody(_, _, _, _)
ProcessBody(st, body, i, source) ==
  IF i > Len(body) THEN st
  ELSE ProcessBody(IF body[i].type = "assignment"
                   THEN ProcessAssignment(st, body[i].data, source)
                   ELSE st,
                   body, i + 1, source)

\* { ...prevContext, ...directive.args }
MergeArgs(prevContext, args) ==
  [k \in (DOMAIN prevContext) \cup (DOMAIN args) |->
     IF k \in DOMAIN args THEN args[k] ELSE prevContext[k]]

\* this.withContext[provider] || {}
ContextOf(context, provider) ==
  IF provider \in DOMAIN context THEN context[provider] ELSE EmptyMap

\* processWith on st: the merged arguments are stored for the time of the
\* walk over the body, then the previous ones are put back.  The body is
\* only logged here; nothing reads withContext when the history is replayed.
ProcessWith(st, directive, source) ==
  LET prevContext == ContextOf(st.withContext, directive.provider)
      pushed == [st EXCEPT !.withContext =
                   Put(@, directive.provider,
                       MergeArgs(prevContext, directive.args))]
      walked == ProcessBody(pushed, directive.body, 1, source)
  IN [walked EXCEPT !.withContext = Put(@, directive.provider, prevContext)]

\* The characters of c other than the double quote.
NonQuotes(c) == {c[k] : k \in 1..Len(c)} \ {DQ}

\* /profile\s*==\s*"([^"]+)"/ tried at position i of c: group 1.
ProfileMatchAt(c, i) ==
  LET a == i + 7 + RunLen(c, i + 7, Spaces)
      b == a + 2 + RunLen(c, a + 2, Spaces)
      n == RunLen(c, b + 1, NonQuotes(c))
  IN IF /\ Slice(c, i, i + 6) = <<"p", "r", "o", "f", "i", "l", "e">>
        /\ Slice(c, a, a + 1) = <<"=", "=">>
        /\ Slice(c, b, b) = <<DQ>>
        /\ n >= 1
        /\ Slice(c, b + 1 + n, b + 1 + n) = <<DQ>>
     THEN [ok |-> TRUE, literal |-> SubSeq(c, b + 1, b + n)]
     ELSE NoMatch

\* /env\("([^"]+)"\)\s*==\s*"([^"]+)"/ tried at position i of c: groups 1
\* and 2.
EnvMatchAt(c, i) ==
  LET m == RunLen(c, i + 5, NonQuotes(c))
      a == i + 7 + m + RunLen(c, i + 7 + m, Spaces)
      b == a + 2 + RunLen(c, a + 2, Spaces)
      n == RunLen(c, b + 1, NonQuotes(c))
  IN IF /\ Slice(c, i, i + 4) = <<"e", "n", "v", "(", DQ>>
        /\ m >= 1
        /\ Slice(c, i + 5 + m, i + 6 + m) = <<DQ, ")">>
        /\ Slice(c, a, a + 1) = <<"=", "=">>
        /\ Slice(c, b, b) = <<DQ>>
        /\ n >= 1
        /\ Slice(c, b + 1 + n, b + 1 + n) = <<DQ>>
     THEN [ok |-> TRUE, name |-> Join(SubSeq(c, i + 5, i + 4 + m)),
           literal |-> SubSeq(c, b + 1, b + n)]
     ELSE NoMatch

\* condition.match(regex) for the two expressions of evaluateCondition: the
\* match at the first position where one succeeds, or no match.
FirstProfileMatch(c) ==
  LET hits == {k \in 1..Len(c) : ProfileMatchAt(c, k).ok}
  IN IF hits = {} THEN NoMatch ELSE ProfileMatchAt(c, Leftmost(hits))

FirstEnvMatch(c) ==
  LET hits == {k \in 1..Len(c) : EnvMatchAt(c, k).ok}
  IN IF hits = {} THEN NoMatch ELSE EnvMatchAt(c, Leftmost(hits))

\* evaluateCondition: the profile expression is tried first, anywhere in the
\* condition; the env expression only when the first does not match.
EvaluateCondition(condition) ==
  LET profileMatch == FirstProfileMatch(condition)
      envMatch == FirstEnvMatch(condition)
  IN IF profileMatch.ok THEN Join(profileMatch.literal) = options.profile
     ELSE IF envMatch.ok
     THEN /\ envMatch.name \in DOMAIN parentEnv
          /\ parentEnv[envMatch.name] = envMatch.literal
     ELSE FALSE

\* processIf on st.
ProcessIf(st, directive, source) ==
  IF EvaluateCondition(directive.condition)
  THEN ProcessBody(st, directive.body, 1, source)
  ELSE st

\* processDirective: @include is handled by the overlay processing.
ProcessDirective(st, directive, source, outcome) ==
  CASE directive.type = "import" -> ProcessImport(st, directive, source, outcome)
    [] directive.type = "from" -> ProcessFrom(st, directive, source)
    [] directive.type = "with" -> ProcessWith(st, directive, source)
    [] directive.type = "if" -> ProcessIf(st, directive, source)
    [] OTHER -> st

\* What provider.resolveBatch of a registered batch provider can do.
BatchOutcomes ==
  { [threw |-> TRUE, result |-> <<>>],
    [threw |-> FALSE, result |-> <<>>],
    [threw |-> FALSE, result |-> << <<<<"a">>, <<"v">>>> >>] }

\* The outcomes to consider for a node: those of resolveBatch when the node
\* is an @import that reaches it, one outcome that is never read otherwise.
OutcomesOf(node) ==
  IF /\ node.type = "directive"
     /\ node.data.type = "import"
     /\ SchemeOf(node.data.uri) \in BatchProviders
  THEN BatchOutcomes
  ELSE {[threw |-> FALSE, result |-> <<>>]}

\* ResolveProvider with a warn stopping the resolution like a deny.
ResolveProvider_WarnThrows(ref, eff) ==
  LET name == GetProviderName(ref)
  IN IF name \notin ProviderRegistry
     THEN [ok |-> FALSE, value |-> <<>>, error |-> "Unknown provider: " \o name,
           eff |-> eff]
     ELSE LET asked == Called(eff, "onProvider", name)
          IN IF OnProviderEffect(ref) \in {"deny", "warn"}
             THEN [ok |-> FALSE, value |-> <<>>,
                   error |-> "Policy denied provider access: " \o Reason,
                   eff |-> IF OnProviderEffect(ref) = "warn"
                           THEN Warned(asked, Reason) ELSE asked]
             ELSE LET r == ResolveSingle(name, ref)
                  IN [ok |-> r.ok, value |-> r.value, error |-> r.error,
                      eff |-> Called(asked, "resolveSingle", name)]

\* ResolveProvider calling the provider whatever onProvider returns.
ResolveProvider_DenyIgnored(ref, eff) ==
  LET name == GetProviderName(ref)
  IN IF name \notin ProviderRegistry
     THEN [ok |-> FALSE, value |-> <<>>, error |-> "Unknown provider: " \o name,
           eff |-> eff]
     ELSE LET asked == Called(eff, "onProvider", name)
              r == ResolveSingle(name, ref)
              told == IF OnProviderEffect(ref) = "warn"
                      THEN Warned(asked, Reason) ELSE asked
          IN [ok |-> r.ok, value |-> r.value, error |-> r.error,
              eff |-> Called(told, "resolveSingle", name)]

\* resolveProvider: [ok, value, error, eff]
ResolveProvider(ref, eff) ==
  LET name == GetProviderName(ref)
  IN IF name \notin ProviderRegistry
     THEN [ok |-> FALSE, value |-> <<>>, error |-> "Unknown provider: " \o name,
           eff |-> eff]
     ELSE LET asked == Called(eff, "onProvider", name)
          IN IF OnProviderEffect(ref) = "deny"
             THEN [ok |-> FALSE, value |-> <<>>,
                   error |-> "Policy denied provider access: " \o Reason,
                   eff |-> asked]
             ELSE LET r == ResolveSingle(name, ref)
                      told == IF OnProviderEffect(ref) = "warn"
                              THEN Warned(asked, Reason) ELSE asked
                  IN [ok |-> r.ok, value |-> r.value, error |-> r.error,
                      eff |-> Called(told, "resolveSingle", name)]

\* UnknownPipeThrows without the test of the soft marker.
UnknownPipeThrows_SoftIgnored(pipeCall) == TRUE

\* if (!pipe) { if (!pipeCall.soft) throw ...; continue; }
UnknownPipeThrows(pipeCall) == ~pipeCall.soft

\* applyPipes from pipe i on: [ok, value, error, eff].
RECURSIVE ApplyPipesFrom(_, _, _, _)
ApplyPipesFrom(result, pipes, i, eff) ==
  IF i > Len(pipes) THEN [ok |-> TRUE, value |-> result, error |-> "", eff |-> eff]
  ELSE LET pipeCall == pipes[i]
       IN IF pipeCall.name \notin PipeRegistry
          THEN IF UnknownPipeThrows(pipeCall)
               THEN [ok |-> FALSE, value |-> result,
                     error |-> "Unknown pipe: " \o pipeCall.name, eff |-> eff]
               ELSE ApplyPipesFrom(result, pipes, i + 1, eff)
          ELSE LET asked == Called(eff, "onPipe", pipeCall.name)
               IN IF OnPipeEffect(pipeCall) = "deny"
                  THEN [ok |-> FALSE, value |-> result,
                        error |-> "Policy denied pipe: " \o Reason, eff |-> asked]
                  ELSE LET told == IF OnPipeEffect(pipeCall) = "warn"
                                   THEN Warned(asked, Reason) ELSE asked
                           applied == Called(told, "pipe.apply", pipeCall.name)
                           failure == PipeError(pipeCall.name, result)
                       IN IF failure = ""
                          THEN ApplyPipesFrom(PipeApply(pipeCall.name, result), pipes,
                                 i + 1, applied)
                          ELSE IF pipeCall.soft
                          THEN ApplyPipesFrom(result, pipes, i + 1, applied)
                          ELSE [ok |-> FALSE, value |-> result,
                                error |-> "Pipe " \o pipeCall.name \o " failed: "
                                            \o failure,
                                eff |-> applied]

ApplyPipes(val, pipes, eff) == ApplyPipesFrom(val, pipes, 1, eff)

\* PickFallback with the fallback sent through the pipe chain.
PickFallback_Piped(val, expression) ==
  IF val = <<>> /\ expression.hasFallback /\ expression.fallback # <<>>
  THEN ApplyPipes(expression.fallback, expression.pipes, NoEffects).value
  ELSE val

\* The last step of resolveExpression: if (!value && expression.fallback).
PickFallback(val, expression) ==
  IF val = <<>> /\ expression.hasFallback /\ expression.fallback # <<>>
  THEN expression.fallback
  ELSE val

\* resolveExpression: [ok, value, error, eff].
ResolveExpression(expression, eff) ==
  LET first == IF expression.trigger = "!"
               THEN IF expression.provider.kind = "none"
                    THEN [ok |-> FALSE, value |-> <<>>,
                          error |-> "Expression marked for evaluation but no provider specified",
                          eff |-> eff]
                    ELSE ResolveProvider(expression.provider, eff)
               ELSE [ok |-> TRUE, value |-> expression.literal, error |-> "",
                     eff |-> eff]
  IN IF ~first.ok THEN first
     ELSE LET piped == ApplyPipes(first.value, expression.pipes, first.eff)
          IN IF piped.ok
             THEN [piped EXCEPT !.value = PickFallback(@, expression)]
             ELSE piped

Undefined == [defined |-> FALSE, value |-> <<>>]

\* FoldAssign with the test of "?=" inverted.
FoldAssign_ConditionalInverted(cur, operator, separator, resolved) ==
  IF operator = "=" THEN [defined |-> TRUE, value |-> resolved]
  ELSE IF operator = "?="
       THEN IF cur.defined THEN [defined |-> TRUE, value |-> resolved] ELSE cur
  ELSE IF operator = "+="
       THEN LET sep == IF separator # <<>> THEN separator ELSE <<":">>
            IN [defined |-> TRUE,
                value |-> IF cur.defined /\ cur.value # <<>>
                          THEN cur.value \o sep \o resolved
                          ELSE resolved]
  ELSE cur

\* FoldAssign with "+=" using the separator whenever a running value is
\* defined, the empty one included.
FoldAssign_DefinedSuffices(cur, operator, separator, resolved) ==
  IF operator = "=" THEN [defined |-> TRUE, value |-> resolved]
  ELSE IF operator = "?="
       THEN IF ~cur.defined THEN [defined |-> TRUE, value |-> resolved] ELSE cur
  ELSE IF operator = "+="
       THEN LET sep == IF separator # <<>> THEN separator ELSE <<":">>
            IN [defined |-> TRUE,
                value |-> IF cur.defined
                          THEN cur.value \o sep \o resolved
                          ELSE resolved]
  ELSE cur

\* "=", "?=" and "+=" applied to the running value cur = [defined, value].
FoldAssign(cur, operator, separator, resolved) ==
  IF operator = "=" THEN [defined |-> TRUE, value |-> resolved]
  ELSE IF operator = "?="
       THEN IF ~cur.defined THEN [defined |-> TRUE, value |-> resolved] ELSE cur
  ELSE IF operator = "+="
       THEN LET sep == IF separator # <<>> THEN separator ELSE <<":">>
            IN [defined |-> TRUE,
                value |-> IF cur.defined /\ cur.value # <<>>
                          THEN cur.value \o sep \o resolved
                          ELSE resolved]
  ELSE cur

\* FoldOperator with @unset leaving the running value as it is.
FoldOperator_UnsetIgnored(cur, operator, separator, resolved) ==
  IF operator = "@unset" THEN cur
  ELSE FoldAssign(cur, operator, separator, resolved)

\* The operator of one history entry applied to the running value.
FoldOperator(cur, operator, separator, resolved) ==
  IF operator = "@unset" THEN Undefined
  ELSE FoldAssign(cur, operator, separator, resolved)

\* The inner loop of resolveExpressions over the entries of one key, from
\* entry i on.  acc = [current, final, errors, eff]; final is the index of the
\* entry held by finalAssignment/finalSource, 0 when they are undefined.
RECURSIVE FoldEntries(_, _, _, _)
FoldEntries(key, entries, i, acc) ==
  IF i > Len(entries) THEN acc
  ELSE LET assignment == entries[i].assignment
       IN IF assignment.operator = "@unset"
          THEN FoldEntries(key, entries, i + 1,
                 [acc EXCEPT !.current = FoldOperator(@, "@unset", <<>>, <<>>),
                            !.final = i])
          ELSE LET r == ResolveExpression(assignment.expression, acc.eff)
               IN IF r.ok
                  THEN FoldEntries(key, entries, i + 1,
                         [acc EXCEPT
                            !.current = FoldOperator(@, assignment.operator,
                                          assignment.options.separator, r.value),
                            !.final = i,
                            !.eff = r.eff])
                  ELSE FoldEntries(key, entries, i + 1,
                         [acc EXCEPT
                            !.errors =
                              Append(@, "Failed to resolve " \o key \o ": " \o r.error),
                            !.eff = r.eff])

RECURSIVE PipeNames(_)
PipeNames(pipes) ==
  IF pipes = <<>> THEN <<>> ELSE <<Head(pipes).name>> \o PipeNames(Tail(pipes))

\* KeyInjectThrows with a deny passed over.
KeyInjectThrows_Never(effect) == FALSE

\* if (effect?.effect === "deny") throw new Error("Policy denied key injection")
KeyInjectThrows(effect) == effect = "deny"

\* checkPolicies from key i of the metadata on: [ok, eff]; ok = FALSE when a
\* deny has thrown.
RECURSIVE CheckKeysFrom(_, _, _)
CheckKeysFrom(order, i, eff) ==
  IF i > Len(order) THEN [ok |-> TRUE, eff |-> eff]
  ELSE LET key == order[i]
           asked == Called(eff, "onKeyInject", key)
       IN IF KeyInjectThrows(OnKeyInjectEffect(key)) THEN [ok |-> FALSE, eff |-> asked]
          ELSE CheckKeysFrom(order, i + 1,
                 IF OnKeyInjectEffect(key) = "warn"
                 THEN Warned(asked, "Policy warning for key " \o key \o ": " \o Reason)
                 ELSE asked)

\* MergeEnv with the parent's value replacing a key already present.
MergeEnv_ParentWins(e, parent) ==
  [k \in (DOMAIN e) \cup (DOMAIN parent) |->
     IF k \in DOMAIN parent THEN parent[k] ELSE e[k]]

\* mergeParentEnv
MergeEnv(e, parent) ==
  [k \in (DOMAIN e) \cup (DOMAIN parent) |-> IF k \in DOMAIN e THEN e[k] ELSE parent[k]]

(***************************************************************************)
(* OverlayResolver (src/src/core/overlay.ts)                               *)
(***************************************************************************)

\* await exists(path)
Exists(path) == Resolve(path) \in DOMAIN fs

\* PushIfExists without the test of existence.
PushIfExists_Always(list, path) == Append(list, path)

\* if (await exists(f)) files.push(f)
PushIfExists(list, path) == IF Exists(path) THEN Append(list, path) ELSE list

\* The loop over options.overlays from overlay i on.
RECURSIVE PushOverlays(_, _, _)
PushOverlays(list, overlays, i) ==
  IF i > Len(overlays) THEN list
  ELSE PushOverlays(
         PushIfExists(list, JoinPath(BaseDir, <<"overlays", overlays[i] \o ".secret">>)),
         overlays, i + 1)

\* resolveFiles
ResolveFilesOf(o) ==
  LET baseFile == IF o.file # <<>> THEN o.file ELSE JoinPath(BaseDir, <<".secret">>)
      withBase == PushIfExists(<<>>, baseFile)
      withLocal == PushIfExists(withBase, JoinPath(BaseDir, <<".secret.local">>))
      withProfile ==
        IF o.profile # ""
        THEN PushIfExists(
               PushIfExists(withLocal, JoinPath(BaseDir, <<".secret." \o o.profile>>)),
               JoinPath(BaseDir, <<".secret." \o o.profile \o ".local">>))
        ELSE withLocal
  IN PushOverlays(withProfile, o.overlays, 1)

\* The paths of the @include directives among the nodes, in order.
RECURSIVE ExtractIncludes(_)
ExtractIncludes(nodes) ==
  IF nodes = <<>> THEN <<>>
  ELSE (IF Head(nodes).type = "directive" /\ Head(nodes).data.type = "include"
        THEN <<Head(nodes).data.path>> ELSE <<>>)
         \o ExtractIncludes(Tail(nodes))

\* resolveIncludePath for a path without "*": the file itself when it exists.
ResolveIncludePath(includePath, fromFile) ==
  LET dir == ResolveFrom(fromFile, <<"..">>)
      absoluteInclude == ResolveFrom(dir, SplitPath(includePath))
  IN IF absoluteInclude \in DOMAIN fs THEN <<absoluteInclude>> ELSE <<>>

\* A ParseError thrown by the Parser: a provider reference of no known form.
ParseThrows(parsed) ==
  \E i \in 1..Len(parsed.nodes) :
    /\ parsed.nodes[i].type = "assignment"
    /\ parsed.nodes[i].data.expression.provider.kind = "invalid"

\* const results = [root] with the includes still to process.
NewFrame(absolutePath, isIncluded, parsed) ==
  [absolutePath |-> absolutePath,
   includes |-> ExtractIncludes(parsed.nodes),
   incIdx |-> 1,
   pending |-> <<>>,
   results |-> <<IF isIncluded
                 THEN [path |-> TagIncluded(absolutePath), nodes |-> parsed.nodes]
                 ELSE parsed>>]

\* AlreadyProcessed looking at no earlier file.
AlreadyProcessed_Never(absolutePath, processed) == FALSE

\* processedIncludes.has(absolutePath)
AlreadyProcessed(absolutePath, processed) == absolutePath \in processed

\* Deliver with the returned entries put before those already collected.
Deliver_Prepended(st, out, returned) ==
  IF st = <<>> THEN [stack |-> st, files |-> out \o returned]
  ELSE [stack |-> [st EXCEPT ![Len(st)].results = returned \o @], files |-> out]

\* results.push(...includedFiles) in the caller, which is the frame on top of
\* st, or parsedFiles.push(...parsed) in parseAllFiles when st is empty.
Deliver(st, out, returned) ==
  IF st = <<>> THEN [stack |-> st, files |-> out \o returned]
  ELSE [stack |-> [st EXCEPT ![Len(st)].results = @ \o returned], files |-> out]

\* JSON.stringify(expression): the defined fields in order.
Stringify(expression) ==
  <<<<"trigger", expression.trigger>>>>
    \o (IF expression.provider.kind # "none"
        THEN <<<<"provider", expression.provider>>>> ELSE <<>>)
    \o (IF expression.trigger # "!"
        THEN <<<<"literal", expression.literal>>>> ELSE <<>>)
    \o <<<<"pipes", expression.pipes>>>>
    \o (IF expression.hasFallback
        THEN <<<<"fallback", expression.fallback>>>> ELSE <<>>)

\* map.set(k, v) on a map kept as a sequence of [k, v] in insertion order.
MapSet(m, k, v) ==
  IF \E i \in 1..Len(m) : m[i].k = k
  THEN [i \in 1..Len(m) |-> IF m[i].k = k THEN [k |-> k, v |-> v] ELSE m[i]]
  ELSE Append(m, [k |-> k, v |-> v])

MapHas(m, k) == \E i \in 1..Len(m) : m[i].k = k

MapGet(m, k) == m[CHOOSE i \in 1..Len(m) : m[i].k = k].v

\* The first loop of detectConflicts, from node j of file i on.
RECURSIVE CollectKeyValues(_, _, _, _)
CollectKeyValues(parsedFiles, i, j, keyValues) ==
  IF i > Len(parsedFiles) THEN keyValues
  ELSE IF j > Len(parsedFiles[i].nodes)
       THEN CollectKeyValues(parsedFiles, i + 1, 1, keyValues)
  ELSE LET node == parsedFiles[i].nodes[j]
       IN IF node.type = "assignment"
          THEN LET key == node.data.key
                   values == IF MapHas(keyValues, key)
                             THEN MapGet(keyValues, key) ELSE <<>>
               IN CollectKeyValues(parsedFiles, i, j + 1,
                    MapSet(keyValues, key,
                      MapSet(values, parsedFiles[i].path,
                             Stringify(node.data.expression))))
          ELSE CollectKeyValues(parsedFiles, i, j + 1, keyValues)

\* EnoughLayers with two layers sufficing.
EnoughLayers_Two(values) == Len(values) >= 2

\* values.size >= 3
EnoughLayers(values) == Len(values) >= 3

\* The second loop of detectConflicts, from key i on.
RECURSIVE CollectConflicts(_, _)
CollectConflicts(keyValues, i) ==
  IF i > Len(keyValues) THEN <<>>
  ELSE LET values == keyValues[i].v
           uniqueValues == {values[n].v : n \in 1..Len(values)}
       IN (IF EnoughLayers(values) /\ Cardinality(uniqueValues) > 1
           THEN <<[k |-> keyValues[i].k,
                   v |-> [n \in 1..Len(values) |-> values[n].k]]>>
           ELSE <<>>)
            \o CollectConflicts(keyValues, i + 1)

\* detectConflicts
DetectConflictsOf(parsedFiles) ==
  CollectConflicts(CollectKeyValues(parsedFiles, 1, 1, <<>>), 1)

(***************************************************************************)
(* Actions: the file pipeline of the CLI (resolveFiles, parseAllFiles,     *)
(* detectConflicts), Parser.parse for a text in memory, then the stages of *)
(* Evaluator.evaluate.                                                     *)
(***************************************************************************)

evalVars ==
  <<fileIdx, nodeIdx, currentSection, env, metadata, metaOrder, warnings,
    errors, assignmentLog, resolveIdx, withContext, trace, value, output>>

ResolveFiles ==
  /\ pc = "resolveFiles"
  /\ resolvedFiles' = ResolveFilesOf(options)
  /\ pc' = "parseAll"
  /\ UNCHANGED <<inputVars, cacheVars, topIdx, processedIncludes, stack, conflicts, files,
                 evalVars>>

\* parseFileWithIncludes(filePath, processedIncludes, isIncluded) entered from
\* the state whose stack is st.
EnterFile(filePath, isIncluded, st) ==
  LET absolutePath == Resolve(filePath)
  IN IF AlreadyProcessed(absolutePath, processedIncludes)
     THEN /\ stack' = st
          /\ UNCHANGED <<processedIncludes, pc, files>>
     ELSE /\ processedIncludes' = processedIncludes \cup {absolutePath}
          /\ IF absolutePath \notin DOMAIN fs
             THEN /\ pc' = "readError"
                  /\ stack' = st
             ELSE LET parsed == Parse(fs[absolutePath], absolutePath)
                  IN IF ParseThrows(parsed)
                     THEN /\ pc' = "parseError"
                          /\ stack' = st
                     ELSE IF Len(st) >= MaxDepth
                     THEN /\ pc' = "stackOverflow"
                          /\ stack' = st
                     ELSE /\ stack' = Append(st, NewFrame(absolutePath, isIncluded, parsed))
                          /\ UNCHANGED pc
          /\ UNCHANGED files

\* One step of parseAllFiles: the loop over the resolved files and, inside a
\* call of parseFileWithIncludes, the loops over its includes.
ParseAllFiles ==
  /\ pc = "parseAll"
  /\ IF stack = <<>>
     THEN IF topIdx > Len(resolvedFiles)
          THEN /\ pc' = "detect"
               /\ UNCHANGED <<topIdx, processedIncludes, stack, files>>
          ELSE /\ topIdx' = topIdx + 1
               /\ EnterFile(resolvedFiles[topIdx], FALSE, stack)
     ELSE LET top == stack[Len(stack)]
          IN /\ UNCHANGED topIdx
             /\ IF top.pending # <<>>
                THEN EnterFile(Head(top.pending), TRUE,
                       [stack EXCEPT ![Len(stack)].pending = Tail(@)])
                ELSE IF top.incIdx <= Len(top.includes)
                THEN /\ stack' = [stack EXCEPT
                          ![Len(stack)].pending =
                             ResolveIncludePath(top.includes[top.incIdx],
                                                top.absolutePath),
                          ![Len(stack)].incIdx = @ + 1]
                     /\ UNCHANGED <<processedIncludes, pc, files>>
                ELSE LET d == Deliver(SubSeq(stack, 1, Len(stack) - 1), files,
                                      top.results)
                     IN /\ stack' = d.stack
                        /\ files' = d.files
                        /\ UNCHANGED <<processedIncludes, pc>>
  /\ UNCHANGED <<inputVars, cacheVars, resolvedFiles, conflicts, evalVars>>

DetectConflicts ==
  /\ pc = "detect"
  /\ conflicts' = DetectConflictsOf(files)
  /\ pc' = "start"
  /\ UNCHANGED <<inputVars, cacheVars, resolvedFiles, topIdx, processedIncludes, stack,
                 files, evalVars>>

ParseFiles ==
  /\ pc = "parse"
  /\ LET parsed == Parse(content, SourcePath)
     IN IF ParseThrows(parsed)
        THEN /\ pc' = "parseError"
             /\ UNCHANGED files
        ELSE /\ files' = <<parsed>>
             /\ pc' = "start"
  /\ UNCHANGED <<inputVars, cacheVars, overlayVars, evalVars>>

\* OnStart going on to the walk after a deny.
OnStart_DenyIgnored ==
  /\ pc = "start"
  /\ trace' = Append(trace, <<"onStart", "">>)
  /\ pc' = "walk"
  /\ warnings' = IF OnStartEffect = "warn" THEN Append(warnings, Reason) ELSE warnings
  /\ UNCHANGED <<inputVars, cacheVars, overlayVars, files, fileIdx, nodeIdx,
                 currentSection, env, metadata, metaOrder, errors, assignmentLog,
                 resolveIdx, withContext, value, output>>

\* evaluate, lines 114-121: the onStart hook.
OnStart ==
  /\ pc = "start"
  /\ trace' = Append(trace, <<"onStart", "">>)
  /\ pc' = IF OnStartEffect = "deny" THEN "aborted" ELSE "walk"
  /\ warnings' = IF OnStartEffect = "warn" THEN Append(warnings, Reason) ELSE warnings
  /\ UNCHANGED <<inputVars, cacheVars, overlayVars, files, fileIdx, nodeIdx,
                 currentSection, env, metadata, metaOrder, errors, assignmentLog,
                 resolveIdx, withContext, value, output>>

\* InitialSection with the section of the previous file still active.
InitialSection_Carried(previous) == previous

\* evaluateFile, line 154: let currentSection = null, whatever section the
\* walk over the previous file ended in.
InitialSection(previous) == NoSection

\* One iteration of the loops of evaluate / evaluateFile.
EvaluateFile ==
  /\ pc = "walk"
  /\ IF fileIdx > Len(files)
     THEN /\ pc' = "resolve"
          /\ UNCHANGED <<fileIdx, nodeIdx, currentSection, env, metadata,
                         metaOrder, warnings, assignmentLog, errors, trace,
                         withContext>>
     ELSE IF nodeIdx > Len(files[fileIdx].nodes)
     THEN /\ fileIdx' = fileIdx + 1
          /\ nodeIdx' = 1
          /\ currentSection' = InitialSection(currentSection)
          /\ UNCHANGED <<pc, env, metadata, metaOrder, warnings, assignmentLog,
                         errors, trace, withContext>>
     ELSE LET node == files[fileIdx].nodes[nodeIdx]
          IN /\ nodeIdx' = nodeIdx + 1
             /\ UNCHANGED fileIdx
             /\ IF node.type = "section"
                THEN /\ currentSection' = node.data
                     /\ UNCHANGED <<pc, env, metadata, metaOrder, warnings,
                                    assignmentLog, errors, trace, withContext>>
                ELSE /\ UNCHANGED currentSection
                     /\ IF node.type = "assignment"
                           /\ ShouldProcessNode(node, currentSection)
                        THEN LET st == ProcessAssignment(
                                         [assignmentLog |-> assignmentLog,
                                          metadata |-> metadata,
                                          metaOrder |-> metaOrder,
                                          env |-> env,
                                          warnings |-> warnings],
                                         node.data, files[fileIdx].path)
                             IN /\ assignmentLog' = st.assignmentLog
                                /\ metadata' = st.metadata
                                /\ metaOrder' = st.metaOrder
                                /\ env' = st.env
                                /\ warnings' = st.warnings
                                /\ UNCHANGED <<pc, errors, trace, withContext>>
                        ELSE IF node.type = "directive"
                                /\ ShouldProcessNode(node, currentSection)
                        THEN \E outcome \in OutcomesOf(node) :
                               LET st == ProcessDirective(
                                           [env |-> env,
                                            metadata |-> metadata,
                                            metaOrder |-> metaOrder,
                                            warnings |-> warnings,
                                            errors |-> errors,
                                            assignmentLog |-> assignmentLog,
                                            withContext |-> withContext,
                                            trace |-> trace,
                                            threw |-> FALSE],
                                           node.data, files[fileIdx].path, outcome)
                               IN /\ env' = st.env
                                  /\ metadata' = st.metadata
                                  /\ metaOrder' = st.metaOrder
                                  /\ errors' = st.errors
                                  /\ trace' = st.trace
                                  /\ pc' = IF st.threw THEN "aborted" ELSE pc
                                  /\ warnings' = st.warnings
                                  /\ assignmentLog' = st.assignmentLog
                                  /\ withContext' = st.withContext
                        ELSE UNCHANGED <<pc, env, metadata, metaOrder, warnings,
                                         assignmentLog, errors, trace,
                                         withContext>>
  /\ UNCHANGED <<inputVars, cacheVars, overlayVars, files, resolveIdx, value, output>>

\* ResolveExpressions taking the metadata from the last entry of the history,
\* resolved or not.
ResolveExpressions_LastEntry ==
  /\ pc = "resolve"
  /\ IF resolveIdx > Len(assignmentLog)
     THEN /\ pc' = "interpolate"
          /\ UNCHANGED <<env, metadata, metaOrder, errors, warnings, trace,
                         resolveIdx>>
     ELSE LET key == assignmentLog[resolveIdx].key
              entries == assignmentLog[resolveIdx].entries
              acc == FoldEntries(key, entries, 1,
                       [current |-> Undefined, final |-> 0, errors |-> errors,
                        eff |-> [trace |-> trace, warnings |-> warnings]])
          IN /\ resolveIdx' = resolveIdx + 1
             /\ errors' = acc.errors
             /\ trace' = acc.eff.trace
             /\ warnings' = acc.eff.warnings
             /\ UNCHANGED pc
             /\ IF ~acc.current.defined
                THEN /\ env' = Delete(env, key)
                     /\ metadata' = Delete(metadata, key)
                     /\ metaOrder' = OrderDelete(metaOrder, key)
                ELSE IF acc.final # 0 /\ entries[acc.final].source # ""
                THEN LET fin == entries[Len(entries)]
                     IN /\ env' = Put(env, key, acc.current.value)
                        /\ metadata' = Put(metadata, key,
                             [value |-> acc.current.value,
                              source |-> fin.source,
                              transforms |-> PipeNames(fin.assignment.expression.pipes),
                              provider |->
                                IF fin.assignment.expression.provider.kind # "none"
                                THEN GetProviderName(fin.assignment.expression.provider)
                                ELSE "",
                              protected |-> fin.assignment.options.protected])
                        /\ metaOrder' = OrderPut(metaOrder, key)
                ELSE UNCHANGED <<env, metadata, metaOrder>>
  /\ UNCHANGED <<inputVars, cacheVars, overlayVars, files, fileIdx, nodeIdx,
                 currentSection, assignmentLog, withContext, value, output>>

\* One iteration of the outer loop of resolveExpressions.
ResolveExpressions ==
  /\ pc = "resolve"
  /\ IF resolveIdx > Len(assignmentLog)
     THEN /\ pc' = "interpolate"
          /\ UNCHANGED <<env, metadata, metaOrder, errors, warnings, trace,
                         resolveIdx>>
     ELSE LET key == assignmentLog[resolveIdx].key
              entries == assignmentLog[resolveIdx].entries
              acc == FoldEntries(key, entries, 1,
                       [current |-> Undefined, final |-> 0, errors |-> errors,
                        eff |-> [trace |-> trace, warnings |-> warnings]])
          IN /\ resolveIdx' = resolveIdx + 1
             /\ errors' = acc.errors
             /\ trace' = acc.eff.trace
             /\ warnings' = acc.eff.warnings
             /\ UNCHANGED pc
             /\ IF ~acc.current.defined
                THEN /\ env' = Delete(env, key)
                     /\ metadata' = Delete(metadata, key)
                     /\ metaOrder' = OrderDelete(metaOrder, key)
                ELSE IF acc.final # 0 /\ entries[acc.final].source # ""
                THEN LET fin == entries[acc.final]
                     IN /\ env' = Put(env, key, acc.current.value)
                        /\ metadata' = Put(metadata, key,
                             [value |-> acc.current.value,
                              source |-> fin.source,
                              transforms |-> PipeNames(fin.assignment.expression.pipes),
                              provider |->
                                IF fin.assignment.expression.provider.kind # "none"
                                THEN GetProviderName(fin.assignment.expression.provider)
                                ELSE "",
                              protected |-> fin.assignment.options.protected])
                        /\ metaOrder' = OrderPut(metaOrder, key)
                ELSE UNCHANGED <<env, metadata, metaOrder>>
  /\ UNCHANGED <<inputVars, cacheVars, overlayVars, files, fileIdx, nodeIdx,
                 currentSection, assignmentLog, withContext, value, output>>

\* ApplyInterpolations scanning the substituted text once more.
ApplyInterpolations_Rescan ==
  /\ pc = "interpolate"
  /\ env' = [k \in DOMAIN env |->
               interpolate(interpolate(env[k], env, parentEnv), env, parentEnv)]
  /\ pc' = "policies"
  /\ UNCHANGED <<inputVars, cacheVars, overlayVars, files, fileIdx, nodeIdx,
                 currentSection, metadata, metaOrder, warnings, errors,
                 assignmentLog, resolveIdx, withContext, trace, value, output>>

\* applyInterpolations: every value is interpolated against this.env as
\* resolveExpressions left it, and the new map then replaces this.env.
ApplyInterpolations ==
  /\ pc = "interpolate"
  /\ env' = [k \in DOMAIN env |-> interpolate(env[k], env, parentEnv)]
  /\ pc' = "policies"
  /\ UNCHANGED <<inputVars, cacheVars, overlayVars, files, fileIdx, nodeIdx,
                 currentSection, metadata, metaOrder, warnings, errors,
                 assignmentLog, resolveIdx, withContext, trace, value, output>>

\* CheckPolicies consulting onKeyInject for the parent's variables as well.
CheckPolicies_ParentKeysToo ==
  /\ pc = "policies"
  /\ LET inherited == (DOMAIN parentEnv) \ (DOMAIN metadata)
         extra == CHOOSE q \in [1..Cardinality(inherited) -> inherited] :
                    \A i, j \in DOMAIN q : q[i] = q[j] => i = j
         r == CheckKeysFrom(metaOrder \o extra, 1,
                            [trace |-> trace, warnings |-> warnings])
     IN /\ pc' = IF r.ok THEN "merge" ELSE "aborted"
        /\ trace' = r.eff.trace
        /\ warnings' = r.eff.warnings
  /\ UNCHANGED <<inputVars, cacheVars, overlayVars, files, fileIdx, nodeIdx,
                 currentSection, env, metadata, metaOrder, errors, assignmentLog,
                 resolveIdx, withContext, value, output>>

CheckPolicies ==
  /\ pc = "policies"
  /\ LET r == CheckKeysFrom(metaOrder, 1, [trace |-> trace, warnings |-> warnings])
     IN /\ pc' = IF r.ok THEN "merge" ELSE "aborted"
        /\ trace' = r.eff.trace
        /\ warnings' = r.eff.warnings
  /\ UNCHANGED <<inputVars, cacheVars, overlayVars, files, fileIdx, nodeIdx,
                 currentSection, env, metadata, metaOrder, errors, assignmentLog,
                 resolveIdx, withContext, value, output>>

MergeParentEnv ==
  /\ pc = "merge"
  /\ env' = IF ~options.pure THEN MergeEnv(env, parentEnv) ELSE env
  /\ pc' = "finish"
  /\ UNCHANGED <<inputVars, cacheVars, overlayVars, files, fileIdx, nodeIdx,
                 currentSection, metadata, metaOrder, warnings, errors,
                 assignmentLog, resolveIdx, withContext, trace, value, output>>

OnFinish ==
  /\ pc = "finish"
  /\ trace' = Append(trace, <<"onFinish", "">>)
  /\ pc' = IF OnFinishEffect = "deny" THEN "aborted" ELSE "done"
  /\ warnings' = IF OnFinishEffect = "warn" THEN Append(warnings, Reason) ELSE warnings
  /\ UNCHANGED <<inputVars, cacheVars, overlayVars, files, fileIdx, nodeIdx,
                 currentSection, env, metadata, metaOrder, errors, assignmentLog,
                 resolveIdx, withContext, value, output>>

\* Parser.parse of a text in memory, then Evaluator.evaluate.
Next ==
  \/ ParseFiles
  \/ OnStart
  \/ EvaluateFile
  \/ ResolveExpressions
  \/ ApplyInterpolations
  \/ CheckPolicies
  \/ MergeParentEnv
  \/ OnFinish

\* The pipeline of the run command over the files on disk.
NextOverlay ==
  \/ ResolveFiles
  \/ ParseAllFiles
  \/ DetectConflicts
  \/ OnStart
  \/ EvaluateFile
  \/ ResolveExpressions
  \/ ApplyInterpolations
  \/ CheckPolicies
  \/ MergeParentEnv
  \/ OnFinish

(***************************************************************************)
(* Inputs.  The source lines are those of the repository's tests, over the *)
(* keys A and B.                                                           *)
(***************************************************************************)
Q(s) == <<DQ>> \o s \o <<DQ>>

Assign(prot, key, op, rest) ==
  [kind |-> "assignment", protected |-> prot, key |-> key, operator |-> op,
   rest |-> rest]

SectionLine(parts) == [kind |-> "section", parts |-> parts]

Upper == <<"u", "p", "p", "e", "r">>
Nope == <<"n", "o", "p", "e", "(", ")">>
Bar == <<" ", "|", " ">>
SoftBar == <<" ", "?", "|", " ">>
OrElse == <<" ", "|", "|", " ">>

\* Operators, @unset, !protected, an explicit separator and a ${A} reference.
OpLines ==
  { Assign(FALSE, "A", "=", <<" ">> \o Q(<<"a">>)),
    Assign(TRUE, "A", "=", <<" ">> \o Q(<<"a">>)),
    Assign(FALSE, "A", "=", <<" ">> \o Q(<<"b">>)),
    Assign(FALSE, "A", "?=", <<" ">> \o Q(<<"c">>)),
    Assign(FALSE, "A", "+=", <<" ">> \o Q(<<"c">>)),
    Assign(FALSE, "A", "+=", <<" ", "(">> \o Q(<<",">>) \o <<")", " ">> \o Q(<<"b">>)),
    Assign(FALSE, "A", "@unset", <<>>),
    Assign(FALSE, "B", "=", <<" ">> \o Q(<<"$", "{", "A", "}">>)) }

\* Pipes, hard and soft, known and unknown, and fallbacks.
PipeLines ==
  { Assign(FALSE, "A", "=", <<" ">> \o Q(<<"a">>) \o Bar \o Nope),
    Assign(FALSE, "A", "=", <<" ">> \o Q(<<"a">>) \o SoftBar \o Nope \o Bar \o Upper),
    Assign(FALSE, "A", "=", <<" ">> \o Q(<<>>) \o Bar \o Upper \o OrElse \o Q(<<"x">>)),
    Assign(FALSE, "A", "=", <<" ">> \o Q(<<"a">>) \o Bar \o Upper \o OrElse \o Q(<<"x">>)),
    Assign(FALSE, "A", "=", <<" ">> \o Q(<<>>) \o OrElse \o Q(<<"x">>)),
    Assign(FALSE, "A", "=", <<" ">> \o Q(<<"a">>) \o OrElse \o Q(<<"x">>)),
    Assign(FALSE, "B", "=", <<" ">> \o Q(<<"b">>) \o SoftBar \o Nope) }

\* Scope sections and the assignments under them.
ScopeLines ==
  { SectionLine(<< <<"scope", "node">> >>),
    SectionLine(<< <<"scope", "python">>, <<"extends">>, <<"node">> >>),
    Assign(FALSE, "A", "=", <<" ">> \o Q(<<"a">>)),
    Assign(FALSE, "B", "=", <<" ">> \o Q(<<"b">>)) }

Programs(lines, max) == UNION {[1..n -> lines] : n \in 0..max}

ParentEnvs ==
  { ("P" :> <<"q">>),
    ("A" :> <<"p">>) @@ ("P" :> <<"q">>) }

ScopeRequests == {<<>>, <<"node">>, <<"python">>, <<"python", "node">>}

RECURSIVE Strings(_, _)
Strings(alphabet, n) ==
  IF n = 0 THEN {<<>>}
  ELSE LET shorter == Strings(alphabet, n - 1)
       IN shorter \cup {Append(t, c) : t \in shorter, c \in alphabet}

InterpChars == {"$", "{", "}", "A", " ", "b"}

DefinedEnvs == {EmptyMap, ("A" :> <<"a">>)}

\* CLIOptions of a run over a text in memory: no file, no overlays.
Options(profile, scopes, pure, force) ==
  [file |-> <<>>, profile |-> profile, scopes |-> scopes, overlays |-> <<>>,
   pure |-> pure, force |-> force]

\* The state right after construction of the Evaluator, before parse.
Start(c, o, p) ==
  /\ content = c
  /\ options = o
  /\ parentEnv = p
  /\ pc = "parse"
  /\ fs = EmptyMap
  /\ resolvedFiles = <<>>
  /\ topIdx = 1
  /\ processedIncludes = {}
  /\ stack = <<>>
  /\ conflicts = <<>>
  /\ metaOrder = <<>>
  /\ trace = <<>>
  /\ files = <<>>
  /\ fileIdx = 1
  /\ nodeIdx = 1
  /\ currentSection = NoSection
  /\ env = EmptyMap
  /\ metadata = EmptyMap
  /\ warnings = <<>>
  /\ errors = <<>>
  /\ assignmentLog = <<>>
  /\ resolveIdx = 1
  /\ withContext = EmptyMap
  /\ NoCache
  /\ value = <<>>
  /\ output = <<>>

InitOps ==
  \E c \in Programs(OpLines, MaxOpLines), pure \in BOOLEAN, force \in BOOLEAN,
     p \in ParentEnvs :
    /\ Start(c, Options("", <<>>, pure, force), p)
    /\ policy = DefaultPolicy

InitPipes ==
  \E c \in Programs(PipeLines, MaxPipeLines), pure \in BOOLEAN, p \in ParentEnvs :
    /\ Start(c, Options("", <<>>, pure, FALSE), p)
    /\ policy = DefaultPolicy

InitScopes ==
  \E c \in Programs(ScopeLines, MaxScopeLines), sc \in ScopeRequests,
     pure \in BOOLEAN :
    /\ Start(c, Options("", sc, pure, FALSE), ("P" :> <<"q">>))
    /\ policy = DefaultPolicy

Init == InitOps \/ InitPipes \/ InitScopes

Spec == Init /\ [][Next]_vars
SpecOps == InitOps /\ [][Next]_vars
SpecPipes == InitPipes /\ [][Next]_vars
SpecScopes == InitScopes /\ [][Next]_vars

(***************************************************************************)
(* A direct call of interpolate(value, definedEnv, parentEnv).             *)
(***************************************************************************)
InitInterp ==
  \E v \in Strings(InterpChars, MaxValueLen), d \in DefinedEnvs, p \in ParentEnvs :
    /\ value = v
    /\ env = d
    /\ parentEnv = p
    /\ pc = "call"
    /\ output = <<>>
    /\ content = <<>>
    /\ options = Options("", <<>>, FALSE, FALSE)
    /\ policy = DefaultPolicy
    /\ fs = EmptyMap
    /\ resolvedFiles = <<>>
    /\ topIdx = 1
    /\ processedIncludes = {}
    /\ stack = <<>>
    /\ conflicts = <<>>
    /\ metaOrder = <<>>
    /\ trace = <<>>
    /\ files = <<>>
    /\ fileIdx = 1
    /\ nodeIdx = 1
    /\ currentSection = NoSection
    /\ metadata = EmptyMap
    /\ warnings = <<>>
    /\ errors = <<>>
    /\ assignmentLog = <<>>
    /\ resolveIdx = 1
    /\ withContext = EmptyMap
    /\ NoCache

InterpolateCall ==
  /\ pc = "call"
  /\ output' = interpolate(value, env, parentEnv)
  /\ pc' = "returned"
  /\ UNCHANGED <<inputVars, cacheVars, overlayVars, files, fileIdx, nodeIdx,
                 currentSection, env, metadata, metaOrder, warnings, errors,
                 assignmentLog, resolveIdx, withContext, trace, value>>

NextInterp == InterpolateCall

SpecInterp == InitInterp /\ [][NextInterp]_vars

(***************************************************************************)
(* Two resolutions of one assignment that differ only in the value that    *)
(* enters the pipes.                                                       *)
(***************************************************************************)
MaxSecretLen == 2

SecretChars == {"1", "\"", "x", "y"}

JsonPipe == <<"j", "s", "o", "n">>

\* K = v | json, K = v | trim | json and K = v | json | upper, for a value v
\* put in afterwards.
SecretPipeLines ==
  { Assign(FALSE, "K", "=", <<" ", "v">> \o Bar \o JsonPipe),
    Assign(FALSE, "K", "=", <<" ", "v">> \o Bar \o <<"t", "r", "i", "m">> \o Bar \o JsonPipe),
    Assign(FALSE, "K", "=", <<" ", "v">> \o Bar \o JsonPipe \o Bar \o Upper) }

\* The assignment of the line with v as the value entering its pipes.
WithSecret(line, v) ==
  [ParseAssignment(line, 1) EXCEPT !.expression.literal = v]

InitSecrets ==
  \E line \in SecretPipeLines,
     a \in Strings(SecretChars, MaxSecretLen), b \in Strings(SecretChars, MaxSecretLen) :
    /\ value = [line |-> line, first |-> a, second |-> b]
    /\ env = EmptyMap
    /\ parentEnv = EmptyMap
    /\ pc = "call"
    /\ output = <<>>
    /\ content = <<>>
    /\ options = Options("", <<>>, FALSE, FALSE)
    /\ policy = DefaultPolicy
    /\ fs = EmptyMap
    /\ resolvedFiles = <<>>
    /\ topIdx = 1
    /\ processedIncludes = {}
    /\ stack = <<>>
    /\ conflicts = <<>>
    /\ files = <<>>
    /\ fileIdx = 1
    /\ nodeIdx = 1
    /\ currentSection = NoSection
    /\ metadata = EmptyMap
    /\ metaOrder = <<>>
    /\ warnings = <<>>
    /\ errors = <<>>
    /\ trace = <<>>
    /\ assignmentLog = <<>>
    /\ resolveIdx = 1
    /\ withContext = EmptyMap
    /\ NoCache

\* The inner loop of resolveExpressions over the one entry of key K, once
\* for each of the two values: the current value and the errors recorded.
ResolveEntryCall ==
  /\ pc = "call"
  /\ LET run(v) ==
           FoldEntries("K",
             <<[assignment |-> WithSecret(value.line, v), source |-> SourcePath]>>, 1,
             [current |-> Undefined, final |-> 0, errors |-> <<>>, eff |-> NoEffects])
         seen(r) == [current |-> r.current, errors |-> r.errors]
     IN output' = <<seen(run(value.first)), seen(run(value.second))>>
  /\ pc' = "returned"
  /\ UNCHANGED <<inputVars, cacheVars, overlayVars, files, fileIdx, nodeIdx,
                 currentSection, env, metadata, metaOrder, warnings, errors,
                 assignmentLog, resolveIdx, withContext, trace, value>>

NextSecrets == ResolveEntryCall

SpecSecrets == InitSecrets /\ [][NextSecrets]_vars

(***************************************************************************)
(* A direct call of parse over the text of a file.                         *)
(***************************************************************************)
MaxTextLines == 4

\* An assignment, an indented one, a line of no form, a block end, a blank
\* line, the headers of the three block directives and an unknown directive.
TextLines ==
  { <<"A", "=", "a">>,
    <<" ", "B", "=", "b">>,
    <<"A", " ", "B", "=", "c">>,
    <<"}">>,
    <<>>,
    <<"@", "i", "f", " ", "c", " ", "{">>,
    <<"w", "i", "t", "h", " ", "p", "(", ")", " ", "{">>,
    <<"@", "f", "r", "o", "m", " ", "e", "n", "v", ":", "/", "/", "x", " ", "{">>,
    <<"@", "x">> }

InitText ==
  \E text \in Programs(TextLines, MaxTextLines) :
    /\ value = text
    /\ env = EmptyMap
    /\ parentEnv = EmptyMap
    /\ pc = "call"
    /\ output = <<>>
    /\ content = <<>>
    /\ options = Options("", <<>>, FALSE, FALSE)
    /\ policy = DefaultPolicy
    /\ fs = EmptyMap
    /\ resolvedFiles = <<>>
    /\ topIdx = 1
    /\ processedIncludes = {}
    /\ stack = <<>>
    /\ conflicts = <<>>
    /\ files = <<>>
    /\ fileIdx = 1
    /\ nodeIdx = 1
    /\ currentSection = NoSection
    /\ metadata = EmptyMap
    /\ metaOrder = <<>>
    /\ warnings = <<>>
    /\ errors = <<>>
    /\ trace = <<>>
    /\ assignmentLog = <<>>
    /\ resolveIdx = 1
    /\ withContext = EmptyMap
    /\ NoCache

\* new Parser(text, file).parse(): the ParsedFile returned, or the error
\* thrown.
ParseCall ==
  /\ pc = "call"
  /\ LET r == ParseText(value)
     IN output' = [status |-> r.status, nodes |-> r.nodes]
  /\ pc' = "returned"
  /\ UNCHANGED <<inputVars, cacheVars, overlayVars, files, fileIdx, nodeIdx,
                 currentSection, env, metadata, metaOrder, warnings, errors,
                 assignmentLog, resolveIdx, withContext, trace, value>>

NextText == ParseCall

SpecText == InitText /\ [][NextText]_vars

(***************************************************************************)
(* Two evaluate calls on one Evaluator instance over the same parsed files.*)
(***************************************************************************)
MaxAgainLines == 2

\* A literal, an append, a protected key and an unknown provider.
AgainLines ==
  { Assign(FALSE, "A", "=", <<" ">> \o Q(<<"a">>)),
    Assign(FALSE, "A", "+=", <<" ">> \o Q(<<"c">>)),
    Assign(TRUE, "B", "=", <<" ">> \o Q(<<"b">>)),
    Assign(FALSE, "X", "=", <<" ", "!">> \o Nope) }

InitAgain ==
  \E c \in Programs(AgainLines, MaxAgainLines), pure \in BOOLEAN,
     pol \in {DefaultPolicy, [DefaultPolicy EXCEPT !["onStart"] = "warn"]} :
    /\ Start(c, Options("", <<>>, pure, FALSE), ("P" :> <<"q">>))
    /\ policy = pol

\* evaluate has returned { env: this.env, metadata: this.metadata, warnings:
\* this.warnings, errors: this.errors } and is called again with the same
\* files.  output keeps what the first result held when it was returned; the
\* fields of the instance, assignmentLog included, are as the first call
\* left them, and the loops start over.
EvaluateAgain ==
  /\ pc = "done"
  /\ output = <<>>
  /\ output' = [env |-> env, metadata |-> metadata, warnings |-> warnings,
                errors |-> errors]
  /\ pc' = "start"
  /\ fileIdx' = 1
  /\ nodeIdx' = 1
  /\ currentSection' = NoSection
  /\ resolveIdx' = 1
  /\ UNCHANGED <<inputVars, cacheVars, overlayVars, files, env, metadata, metaOrder,
                 warnings, errors, assignmentLog, withContext, trace, value>>

NextAgain == Next \/ EvaluateAgain

SpecAgain == InitAgain /\ [][NextAgain]_vars

(***************************************************************************)
(* GCPSecretManagerProvider.resolveBatch (src/src/core/providers/gcp.ts):  *)
(* one task per listed secret, the tasks completing in any order.          *)
(***************************************************************************)
MaxSecrets == 3

\* The last path segment of the names the list request returns.
SecretNames == {<<"a">>, <<"p", "a">>, <<"p", "b">>}

\* What the versions/latest:access request of a secret does: an ok response
\* whose payload decodes, a response that is not ok, or a rejected fetch.
FetchOutcomes == {"ok", "notOk", "throws"}

\* The listings of up to MaxSecrets secrets with different names.
Listings ==
  { l \in UNION {[1..n -> SecretNames \X FetchOutcomes] : n \in 0..MaxSecrets} :
      \A i, j \in 1..Len(l) : i # j => l[i][1] # l[j][1] }

InitGcp ==
  \E l \in Listings, prefix \in {<<>>, <<"p">>}, listOk \in BOOLEAN :
    /\ value = [secrets |-> [i \in 1..Len(l) |->
                               [name |-> l[i][1], outcome |-> l[i][2],
                                decoded |-> <<"v">> \o l[i][1]]],
                prefix |-> prefix,
                listOk |-> listOk]
    /\ env = EmptyMap
    /\ parentEnv = EmptyMap
    /\ pc = "call"
    /\ output = <<>>
    /\ content = <<>>
    /\ options = Options("", <<>>, FALSE, FALSE)
    /\ policy = DefaultPolicy
    /\ fs = EmptyMap
    /\ resolvedFiles = <<>>
    /\ topIdx = 1
    /\ processedIncludes = {}
    /\ stack = <<>>
    /\ conflicts = <<>>
    /\ files = <<>>
    /\ fileIdx = 1
    /\ nodeIdx = 1
    /\ currentSection = NoSection
    /\ metadata = EmptyMap
    /\ metaOrder = <<>>
    /\ warnings = <<>>
    /\ errors = <<>>
    /\ trace = <<>>
    /\ assignmentLog = <<>>
    /\ resolveIdx = 1
    /\ withContext = EmptyMap
    /\ NoCache

\* query.prefix && !name.startsWith(query.prefix): the task returns at once.
SkippedByPrefix(name, prefix) == prefix # <<>> /\ ~StartsWith(name, prefix)

\* query.prefix ? name.slice(query.prefix.length) : name
BatchKey(name, prefix) ==
  Join(IF prefix # <<>> THEN SubSeq(name, Len(prefix) + 1, Len(name)) ELSE name)

\* The catch block runs, and logs, when the fetch or the decoding throws; a
\* response that is not ok runs neither branch.
LogsFailure(outcome) == outcome = "throws"

\* resolveBatch, lines 83-113: the list request, then secrets.map starts a
\* task per secret; the tasks not skipped wait for their fetch.
GcpListSecrets ==
  /\ pc = "call"
  /\ IF value.listOk
     THEN /\ output' = [result |-> EmptyMap, order |-> <<>>, audit |-> <<>>,
                        pending |-> {i \in 1..Len(value.secrets) :
                                       ~SkippedByPrefix(value.secrets[i].name,
                                                        value.prefix)}]
          /\ pc' = "fetching"
     ELSE /\ pc' = "rejected"
          /\ UNCHANGED output
  /\ UNCHANGED <<inputVars, cacheVars, overlayVars, files, fileIdx, nodeIdx,
                 currentSection, env, metadata, metaOrder, warnings, errors,
                 assignmentLog, resolveIdx, withContext, trace, value>>

\* Lines 120-146: the fetch of one waiting task completes and the task runs
\* to its end.
GcpFetchDone ==
  /\ pc = "fetching"
  /\ \E i \in output.pending :
       LET secret == value.secrets[i]
           key == BatchKey(secret.name, value.prefix)
       IN output' =
            [output EXCEPT
               !.pending = @ \ {i},
               !.result = IF secret.outcome = "ok"
                          THEN Put(@, key, secret.decoded) ELSE @,
               !.order = IF secret.outcome = "ok" THEN OrderPut(@, key) ELSE @,
               !.audit = IF LogsFailure(secret.outcome)
                         THEN Append(@, [action |-> "batch_secret_fetch",
                                         key |-> Join(secret.name),
                                         provider |-> "gcp",
                                         success |-> FALSE])
                         ELSE @]
  /\ UNCHANGED <<inputVars, cacheVars, overlayVars, files, fileIdx, nodeIdx,
                 currentSection, env, metadata, metaOrder, warnings, errors,
                 assignmentLog, resolveIdx, withContext, trace, value, pc>>

\* await Promise.all(...); return result
GcpReturn ==
  /\ pc = "fetching"
  /\ output.pending = {}
  /\ pc' = "returned"
  /\ UNCHANGED <<inputVars, cacheVars, overlayVars, files, fileIdx, nodeIdx,
                 currentSection, env, metadata, metaOrder, warnings, errors,
                 assignmentLog, resolveIdx, withContext, trace, value, output>>

NextGcp == GcpListSecrets \/ GcpFetchDone \/ GcpReturn

SpecGcp == InitGcp /\ [][NextGcp]_vars

(***************************************************************************)
(* Properties                                                              *)
(***************************************************************************)

\* The operators of a history, in order.
HistoryOps(h) == [j \in 1..Len(h) |-> h[j].assignment.operator]

HasWarning(w) == \E i \in 1..Len(warnings) : warnings[i] = w

HasError(e) == \E i \in 1..Len(errors) : errors[i] = e

ProtectedWarning(key) == "Cannot override protected key: " \o key

\* C1: a key first assigned with !protected (value v) and then assigned again
\* (no @unset): without force the result has env[K] = v, metadata[K].protected
\* and the warning "Cannot override protected key: K"; with force the later
\* assignment takes effect and there is no such warning.
C1_ProtectedOverrideGatedByForce ==
  pc = "done" =>
    \A i \in 1..Len(assignmentLog) :
      LET key == assignmentLog[i].key
          h == assignmentLog[i].entries
          first == h[1].assignment
          last == h[Len(h)].assignment
      IN (/\ Len(h) >= 2
          /\ first.operator = "="
          /\ first.options.protected
          /\ \A j \in 2..Len(h) : h[j].assignment.operator # "@unset")
         => IF ~options.force
            THEN /\ key \in DOMAIN env
                 /\ env[key] = first.expression.literal
                 /\ key \in DOMAIN metadata
                 /\ metadata[key].protected
                 /\ HasWarning(ProtectedWarning(key))
            ELSE /\ ~HasWarning(ProtectedWarning(key))
                 /\ last.operator = "="
                      => key \in DOMAIN env /\ env[key] = last.expression.literal

\* C2: the history K = v1, K = @unset, K ?= v2 yields env[K] = v2.
C2_UnsetThenConditionalSet ==
  pc = "done" =>
    \A i \in 1..Len(assignmentLog) :
      LET key == assignmentLog[i].key
          h == assignmentLog[i].entries
      IN HistoryOps(h) = <<"=", "@unset", "?=">>
         => /\ key \in DOMAIN env
            /\ env[key] = h[3].assignment.expression.literal

C2_Witness ==
  /\ pc = "done"
  /\ \E i \in 1..Len(assignmentLog) :
       /\ HistoryOps(assignmentLog[i].entries) = <<"=", "@unset", "?=">>
       /\ assignmentLog[i].entries[1].assignment.expression.literal = <<"a">>
       /\ assignmentLog[i].key \in DOMAIN env
       /\ env[assignmentLog[i].key] = <<"c">>

\* The value written after the (sep) prefix of a += source line.
WrittenValue(line) ==
  LET valueStr == Trim(line.rest)
      j == SepMatchEnd(valueStr)
  IN Unquote(SubSeq(valueStr, IF j = 0 THEN 1 ELSE j + 2, Len(valueStr)))

\* C3: for K = a, K += (s) b, K += c the final env[K] is a, s, b, the default
\* separator ":" and c; the separator text is not part of the appended value.
C3_SeparatorPerAssignment ==
  pc = "done" =>
    \A i \in 1..Len(assignmentLog) :
      LET key == assignmentLog[i].key
          h == assignmentLog[i].entries
      IN (/\ HistoryOps(h) = <<"=", "+=", "+=">>
          /\ h[2].assignment.options.separator # <<>>
          /\ h[3].assignment.options.separator = <<>>)
         => /\ key \in DOMAIN env
            /\ env[key] =
                 h[1].assignment.expression.literal
                   \o h[2].assignment.options.separator
                   \o WrittenValue(content[h[2].assignment.location])
                   \o <<":">>
                   \o WrittenValue(content[h[3].assignment.location])

\* The pipes of a chain that are registered, applied in order to v.
RECURSIVE KnownPiped(_, _)
KnownPiped(v, pipes) ==
  IF pipes = <<>> THEN v
  ELSE KnownPiped(IF Head(pipes).name \in PipeRegistry
                  THEN PipeApply(Head(pipes).name, v) ELSE v,
                  Tail(pipes))

HardUnknown(pipes) ==
  \E j \in 1..Len(pipes) : pipes[j].name \notin PipeRegistry /\ ~pipes[j].soft

SoftUnknown(pipes) ==
  \E j \in 1..Len(pipes) : pipes[j].name \notin PipeRegistry /\ pipes[j].soft

UnknownPipeError(key, pipes) ==
  \E j \in 1..Len(pipes) :
    /\ pipes[j].name \notin PipeRegistry
    /\ HasError("Failed to resolve " \o key \o ": Unknown pipe: " \o pipes[j].name)

\* C4 (as stated): an unknown pipe referenced with | in the only assignment to
\* K gives a non-empty errors list and K absent from env; referenced with ?| the
\* value passes on unchanged through the later pipes and no error is recorded.
C4_UnknownPipeHardVsSoft ==
  pc = "done" =>
    \A i \in 1..Len(assignmentLog) :
      LET key == assignmentLog[i].key
          h == assignmentLog[i].entries
          e == h[1].assignment.expression
      IN (Len(h) = 1 /\ h[1].assignment.operator = "=")
         => /\ HardUnknown(e.pipes)
                 => /\ Len(errors) > 0
                    /\ key \notin DOMAIN env
            /\ (SoftUnknown(e.pipes) /\ ~HardUnknown(e.pipes) /\ ~e.hasFallback)
                 => /\ key \in DOMAIN env
                    /\ env[key] = KnownPiped(e.literal, e.pipes)
                    /\ ~UnknownPipeError(key, e.pipes)

\* C4 (amended): as C4, except that K is absent from metadata, and absent from
\* env only when pure is set or the parent environment does not define K;
\* otherwise env[K] is the parent's value.
C4_UnknownPipeHardVsSoftAmended ==
  pc = "done" =>
    \A i \in 1..Len(assignmentLog) :
      LET key == assignmentLog[i].key
          h == assignmentLog[i].entries
          e == h[1].assignment.expression
      IN (Len(h) = 1 /\ h[1].assignment.operator = "=")
         => /\ HardUnknown(e.pipes)
                 => /\ Len(errors) > 0
                    /\ UnknownPipeError(key, e.pipes)
                    /\ key \notin DOMAIN metadata
                    /\ IF ~options.pure /\ key \in DOMAIN parentEnv
                       THEN key \in DOMAIN env /\ env[key] = parentEnv[key]
                       ELSE key \notin DOMAIN env
            /\ (SoftUnknown(e.pipes) /\ ~HardUnknown(e.pipes) /\ ~e.hasFallback)
                 => /\ key \in DOMAIN env
                    /\ env[key] = KnownPiped(e.literal, e.pipes)
                    /\ ~UnknownPipeError(key, e.pipes)

C4_Witness ==
  /\ pc = "done"
  /\ Len(assignmentLog) = 2
  /\ assignmentLog[1].key = "A"
  /\ Len(assignmentLog[1].entries) = 1
  /\ HardUnknown(assignmentLog[1].entries[1].assignment.expression.pipes)
  /\ Len(assignmentLog[2].entries) = 1
  /\ SoftUnknown(assignmentLog[2].entries[1].assignment.expression.pipes)
  /\ Len(errors) = 1
  /\ "A" \notin DOMAIN env
  /\ "B" \in DOMAIN env
  /\ env["B"] = <<"b">>

\* C5: when the value after all pipes is empty and a fallback literal is given,
\* the resolved value is the fallback literal itself, not piped; when the piped
\* value is not empty the fallback is ignored.
C5_FallbackBypassesPipes ==
  pc = "done" =>
    \A i \in 1..Len(assignmentLog) :
      LET key == assignmentLog[i].key
          h == assignmentLog[i].entries
          e == h[Len(h)].assignment.expression
          piped == KnownPiped(e.literal, e.pipes)
      IN (/\ h[Len(h)].assignment.operator = "="
          /\ e.hasFallback
          /\ ~HardUnknown(e.pipes))
         => /\ key \in DOMAIN env
            /\ env[key] = IF piped = <<>> THEN e.fallback ELSE piped

C5_Witness ==
  /\ pc = "done"
  /\ Len(assignmentLog) = 1
  /\ Len(assignmentLog[1].entries) = 1
  /\ LET e == assignmentLog[1].entries[1].assignment.expression
     IN /\ e.literal = <<>>
        /\ PipeNames(e.pipes) = <<"upper">>
        /\ e.hasFallback
        /\ e.fallback = <<"x">>
  /\ env[assignmentLog[1].key] = <<"x">>

(* Sections of the source text. *)
RECURSIVE LastSectionBefore(_, _)
LastSectionBefore(lines, i) ==
  IF i < 1 THEN 0
  ELSE IF lines[i].kind = "section" THEN i
  ELSE LastSectionBefore(lines, i - 1)

\* The section in force at a line: the nearest section header above it.
GoverningSection(lineNo) ==
  LET j == LastSectionBefore(content, lineNo - 1)
  IN IF j = 0 THEN NoSection ELSE ParseSection(content[j].parts, j)

DeclaredSections ==
  {ParseSection(content[j].parts, j) :
     j \in {k \in 1..Len(content) : content[k].kind = "section"}}

SeqRange(q) == {q[j] : j \in 1..Len(q)}

ParentScopes(names) ==
  UNION {SeqRange(sec.extends) :
           sec \in {d \in DeclaredSections : d.type = "scope" /\ d.name \in names}}

RECURSIVE WithAncestors(_, _)
WithAncestors(names, n) ==
  IF n = 0 THEN names ELSE WithAncestors(names \cup ParentScopes(names), n - 1)

\* A scope section is selected by a request that names it or a descendant.
Selects(requested, section) ==
  section.name \in WithAncestors(SeqRange(requested), Len(content))

Logged(lineNo) ==
  \E i \in 1..Len(assignmentLog) :
    \E j \in 1..Len(assignmentLog[i].entries) :
      assignmentLog[i].entries[j].assignment.location = lineNo

AssignmentLines == {k \in 1..Len(content) : content[k].kind = "assignment"}

\* C6: with [scope:python extends node] defined and exactly [python] requested,
\* the assignments under [scope:node] are processed as well as those under
\* [scope:python extends node]: their keys are in env.
C6_ChildScopeActivatesAncestors ==
  (/\ pc = "done"
   /\ options.scopes = <<"python">>
   /\ \E d \in DeclaredSections :
        d.type = "scope" /\ d.name = "python" /\ "node" \in SeqRange(d.extends))
  => \A k \in AssignmentLines :
       LET sec == GoverningSection(k)
       IN (sec.type = "scope" /\ sec.name \in {"node", "python"})
          => Logged(k) /\ content[k].key \in DOMAIN env

\* C7: the content of a scope section that no requested scope selects is never
\* processed: with no scope requested no scope section contributes a key, and
\* requesting only node never activates [scope:python extends node].
C7_UnselectedScopeNeverProcessed ==
  /\ \A k \in AssignmentLines :
       LET sec == GoverningSection(k)
       IN Logged(k) =>
            /\ sec.type = "scope" => Selects(options.scopes, sec)
            /\ options.scopes = <<>> => sec.type # "scope"
            /\ options.scopes = <<"node">> => sec.name # "python"
  /\ \A key \in DOMAIN metadata :
       \E k \in AssignmentLines :
         /\ content[k].key = key
         /\ GoverningSection(k).type = "scope"
              => Selects(options.scopes, GoverningSection(k))

C7_Witness ==
  /\ pc = "done"
  /\ options.scopes = <<"node">>
  /\ Len(content) = 4
  /\ content[1].kind = "section"
  /\ content[3].kind = "section"
  /\ GoverningSection(2).name = "node"
  /\ GoverningSection(4).name = "python"
  /\ GoverningSection(4).extends = <<"node">>
  /\ content[2].kind = "assignment"
  /\ content[4].kind = "assignment"
  /\ content[2].key = "A"
  /\ content[4].key = "B"
  /\ "A" \in DOMAIN env
  /\ "B" \notin DOMAIN env
  /\ ~Logged(4)

\* The text that replaces the token ${name}.
ExpectedSubstitute(name) ==
  LET k == Join(Trim(name))
  IN IF k \in DOMAIN env THEN env[k]
     ELSE IF k \in DOMAIN parentEnv THEN parentEnv[k]
     ELSE <<"$", "{">> \o name \o <<"}">>

\* value[i..] starts with a token ${name} whose name has n characters.
TokenAt(i, n) ==
  /\ i + 2 + n <= Len(value)
  /\ value[i] = "$"
  /\ value[i + 1] = "{"
  /\ \A j \in (i + 2)..(i + 1 + n) : value[j] # "}"
  /\ value[i + 2 + n] = "}"

ConfigKeys == {content[k].key : k \in AssignmentLines}

FoldsToUnset(h) == h[Len(h)].assignment.operator = "@unset"

\* C10 (as stated): a key whose history folds to unset is absent from both env
\* and metadata of the result.
C10_UnsetKeyAbsentFromResult ==
  pc = "done" =>
    \A i \in 1..Len(assignmentLog) :
      FoldsToUnset(assignmentLog[i].entries)
        => /\ assignmentLog[i].key \notin DOMAIN env
           /\ assignmentLog[i].key \notin DOMAIN metadata

\* C10 (amended): such a key is absent from metadata, and absent from env when
\* pure is set or the parent environment does not define it; otherwise env
\* holds the parent's value for it.
C10_UnsetKeyAbsentUnlessInherited ==
  pc = "done" =>
    \A i \in 1..Len(assignmentLog) :
      LET key == assignmentLog[i].key
      IN FoldsToUnset(assignmentLog[i].entries)
           => /\ key \notin DOMAIN metadata
              /\ IF ~options.pure /\ key \in DOMAIN parentEnv
                 THEN key \in DOMAIN env /\ env[key] = parentEnv[key]
                 ELSE key \notin DOMAIN env

C10_Witness ==
  /\ pc = "done"
  /\ options.pure
  /\ "A" \in DOMAIN parentEnv
  /\ Len(assignmentLog) = 1
  /\ HistoryOps(assignmentLog[1].entries) = <<"=", "@unset">>
  /\ assignmentLog[1].key = "A"
  /\ "A" \notin DOMAIN env
  /\ "A" \notin DOMAIN metadata

(***************************************************************************)
(* Profile sections: the lines of src/src/test/sections.test.ts.           *)
(***************************************************************************)
ProfileLines ==
  { SectionLine(<< <<"default">> >>),
    SectionLine(<< <<"production">> >>),
    Assign(FALSE, "A", "=", <<" ">> \o Q(<<"a">>)),
    Assign(FALSE, "A", "=", <<" ">> \o Q(<<"b">>)) }

ProfileRequests == {"", "production", "staging"}

InitProfiles ==
  \E c \in Programs(ProfileLines, MaxProfileLines), pr \in ProfileRequests :
    /\ Start(c, Options(pr, <<>>, FALSE, FALSE), ("P" :> <<"q">>))
    /\ policy = DefaultPolicy

SpecProfiles == InitProfiles /\ [][Next]_vars

(***************************************************************************)
(* Policies that deny or warn, over provider references and pipes.         *)
(***************************************************************************)
EnvCall(args) == <<" ", "!", "e", "n", "v", "(">> \o args \o <<")">>

NameArg(v) == <<"n", "a", "m", "e", "=">> \o Q(v)

PolicyLines ==
  { Assign(FALSE, "X", "=", EnvCall(NameArg(<<"P">>))),
    Assign(FALSE, "X", "=", <<" ">> \o Q(<<"x">>)),
    Assign(FALSE, "A", "=", <<" ">> \o Q(<<"a">>) \o Bar \o Upper),
    Assign(FALSE, "B", "=", EnvCall(NameArg(<<"N">>))),
    Assign(FALSE, "B", "=", <<" ", "!", "v", "(", ")">>) }

Effects == {"allow", "deny", "warn"}

Hooks == {"onStart", "onProvider", "onPipe", "onKeyInject", "onFinish"}

\* The default policy with one hook returning another effect.
Policies ==
  {DefaultPolicy}
    \cup {[DefaultPolicy EXCEPT ![h] = e] : h \in Hooks, e \in {"deny", "warn"}}

InitPolicy ==
  \E c \in Programs(PolicyLines, MaxPolicyLines), pol \in Policies, pure \in BOOLEAN :
    /\ Start(c, Options("", <<>>, pure, FALSE), ("P" :> <<"q">>))
    /\ policy = pol

SpecPolicy == InitPolicy /\ [][Next]_vars

\* Every combination of allow and warn over the five hooks.
WarnPolicies == [Hooks -> {"allow", "warn"}]

InitWarn ==
  \E c \in Programs(PolicyLines, MaxWarnLines), pol \in WarnPolicies, pure \in BOOLEAN :
    /\ Start(c, Options("", <<>>, pure, FALSE), ("P" :> <<"q">>))
    /\ policy = pol

SpecWarn == InitWarn /\ [][Next]_vars

(***************************************************************************)
(* @import and @from directives next to ordinary assignments.              *)
(***************************************************************************)
MaxDirectiveLines == 2

Import(parts) == [kind |-> "import", parts |-> parts]

From(baseUri, body) == [kind |-> "from", baseUri |-> baseUri, body |-> body]

NopeUri == <<"n", "o", "p", "e", ":", "/", "/", "x">>
EnvUri == <<"e", "n", "v", ":", "/", "/", "x">>
GcpUri == <<"g", "c", "p", ":", "/", "/", "p">>

\* An unregistered scheme, a provider without resolveBatch, a batch provider
\* with and without options, @from blocks, and assignments around them, one
\* of them a "?=" to the key the prefixed, upper-cased batch writes.
DirectiveLines ==
  { Import(<<NopeUri>>),
    Import(<<EnvUri>>),
    Import(<<GcpUri>>),
    Import(<<GcpUri, <<"p", "r", "e", "f", "i", "x", "=", "x">>,
             <<"c", "a", "s", "e", "=", "u", "p", "p", "e", "r">>>>),
    From(NopeUri, <<<<"K", " ", "=", " ", "p">>>>),
    From(EnvUri, <<<<"K", " ", "=", " ", "p">>, <<"#">>>>),
    Assign(FALSE, "A", "=", <<" ">> \o Q(<<"a">>)),
    Assign(FALSE, "XA", "?=", <<" ">> \o Q(<<"b">>)),
    Assign(FALSE, "X", "=", <<" ", "!">> \o Nope) }

InitDirectives ==
  \E c \in Programs(DirectiveLines, MaxDirectiveLines) :
    /\ Start(c, Options("", <<>>, TRUE, FALSE), ("P" :> <<"q">>))
    /\ policy = DefaultPolicy

SpecDirectives == InitDirectives /\ [][Next]_vars

(***************************************************************************)
(* Files on disk, as the tests of src/src/test/overlay.test.ts lay them    *)
(* out in the working directory.                                           *)
(***************************************************************************)
Include(path) == [kind |-> "include", rest |-> path]

DotSecret == BaseDir \o <<".secret">>
DotSecretLocal == BaseDir \o <<".secret.local">>
DotSecretProd == BaseDir \o <<".secret.prod">>
DotSecretProdLocal == BaseDir \o <<".secret.prod.local">>
OverlayX == BaseDir \o <<"overlays", "x.secret">>
OverlayY == BaseDir \o <<"overlays", "y.secret">>
CustomSecret == BaseDir \o <<"custom.secret">>
ASecret == BaseDir \o <<"a.secret">>
BSecret == BaseDir \o <<"b.secret">>
CSecret == BaseDir \o <<"sub", "c.secret">>

\* CLIOptions of a run over the files on disk.
FileOptions(file, profile, overlays) ==
  [file |-> file, profile |-> profile, scopes |-> <<>>, overlays |-> overlays,
   pure |-> TRUE, force |-> FALSE]

\* The state before resolveFiles.
StartFiles(f, o) ==
  /\ content = <<>>
  /\ options = o
  /\ parentEnv = ("P" :> <<"q">>)
  /\ policy = DefaultPolicy
  /\ fs = f
  /\ pc = "resolveFiles"
  /\ resolvedFiles = <<>>
  /\ topIdx = 1
  /\ processedIncludes = {}
  /\ stack = <<>>
  /\ conflicts = <<>>
  /\ files = <<>>
  /\ fileIdx = 1
  /\ nodeIdx = 1
  /\ currentSection = NoSection
  /\ env = EmptyMap
  /\ metadata = EmptyMap
  /\ metaOrder = <<>>
  /\ warnings = <<>>
  /\ errors = <<>>
  /\ assignmentLog = <<>>
  /\ resolveIdx = 1
  /\ withContext = EmptyMap
  /\ NoCache
  /\ trace = <<>>
  /\ value = <<>>
  /\ output = <<>>

\* resolveFiles: every candidate present or absent, every kind of request.
ResolveCandidates ==
  {DotSecret, DotSecretLocal, DotSecretProd, DotSecretProdLocal, OverlayX,
   OverlayY, CustomSecret}

OverlayRequests == {<<>>, <<"x">>, <<"y", "x">>, <<"x", "x">>}

InitResolve ==
  \E present \in SUBSET ResolveCandidates, file \in {<<>>, <<"custom.secret">>},
     profile \in {"", "prod"}, overlays \in OverlayRequests :
    StartFiles([p \in present |-> <<Assign(FALSE, "A", "=", <<" ">> \o Q(<<"a">>))>>],
               FileOptions(file, profile, overlays))

SpecResolve == InitResolve /\ [][NextOverlay]_vars

\* @include: files that include each other, themselves, and missing files.
DotSlash == <<".", "/">>
ToA == <<"a", ".", "s", "e", "c", "r", "e", "t">>
ToB == <<"b", ".", "s", "e", "c", "r", "e", "t">>
ToC == <<"s", "u", "b", "/", "c", ".", "s", "e", "c", "r", "e", "t">>
ToTop == <<".", "s", "e", "c", "r", "e", "t">>
UpDir == <<".", ".", "/">>

TopLines ==
  { Include(DotSlash \o ToA), Include(Q(ToB)), Include(ToC),
    Assign(FALSE, "K", "=", <<" ">> \o Q(<<"a">>)) }

ABodies ==
  { <<>>, <<Include(ToB)>>, <<Include(ToC)>>, <<Include(ToTop)>>,
    <<Include(ToB), Include(ToC)>> }

BBodies ==
  { <<>>, <<Include(ToA)>>, <<Include(DotSlash \o ToC)>>, <<Include(DotSlash \o ToB)>> }

CBodies ==
  { <<>>, <<Include(UpDir \o ToA)>>, <<Include(UpDir \o ToTop)>> }

LocalBodies == { <<>>, <<Include(ToB)>> }

InitIncludes ==
  \E top \in Programs(TopLines, MaxIncludes), a \in ABodies, b \in BBodies,
     c \in CBodies, l \in LocalBodies, hasLocal \in BOOLEAN :
    StartFiles((DotSecret :> top) @@ (ASecret :> a) @@ (BSecret :> b)
                 @@ (CSecret :> c)
                 @@ (IF hasLocal THEN (DotSecretLocal :> l) ELSE EmptyMap),
               FileOptions(<<>>, "", <<>>))

SpecIncludes == InitIncludes /\ [][NextOverlay]_vars

\* Cycles: a.secret, b.secret and sub/c.secret include each other, themselves
\* and the file that includes them.
InitCycles ==
  \E top \in Programs(TopLines, MaxCycleIncludes), a \in ABodies, b \in BBodies,
     c \in CBodies :
    StartFiles((DotSecret :> top) @@ (ASecret :> a) @@ (BSecret :> b)
                 @@ (CSecret :> c),
               FileOptions(<<>>, "", <<>>))

\* The scheduler runs the command to its end: no step is postponed for ever.
\* parseAllFiles runs to completion once called: a step of ParseAllFiles is
\* possible in every state with pc = "parseAll" and in no other, so weak
\* fairness of the loop is that it is not forever at "parseAll" without
\* stepping.
ParseAllFilesFair == []<>(pc # "parseAll") \/ []<><<ParseAllFiles>>_vars

SpecIncludesFair ==
  InitCycles /\ [][NextOverlay]_vars /\ WF_vars(ResolveFiles) /\ ParseAllFilesFair

\* Layers: up to four files assigning the same key.
LayerLines ==
  { Assign(FALSE, "K", "=", <<" ">> \o Q(<<"a">>)),
    Assign(FALSE, "K", "=", <<" ">> \o Q(<<"b">>)) }

LayerBodies == Programs(LayerLines, MaxLayerLines)

OverlayBodies ==
  { <<Assign(FALSE, "K", "=", <<" ">> \o Q(<<"a">>))>>,
    <<Assign(FALSE, "K", "+=", <<" ">> \o Q(<<"a">>))>> }

\* A file system with the file at path p holding body, or without it.
Maybe(present, p, body) == IF present THEN (p :> body) ELSE EmptyMap

InitLayers ==
  \E b1 \in LayerBodies, b2 \in LayerBodies, b3 \in LayerBodies,
     b4 \in OverlayBodies, has \in [1..4 -> BOOLEAN] :
    StartFiles(Maybe(has[1], DotSecret, b1) @@ Maybe(has[2], DotSecretLocal, b2)
                 @@ Maybe(has[3], DotSecretProd, b3) @@ Maybe(has[4], OverlayX, b4),
               FileOptions(<<>>, "prod", <<"x">>))

SpecLayers == InitLayers /\ [][NextOverlay]_vars

(***************************************************************************)
(* Properties of the file pipeline                                         *)
(***************************************************************************)

\* The source lines of the file behind entry i of the parsed files.
AbsoluteOf(path) == CHOOSE a \in DOMAIN fs : path = a \/ path = TagIncluded(a)

SourceLines(i) == fs[AbsoluteOf(files[i].path)]

\* The lines of entry i that assign key.
KeyLines(i, key) ==
  {n \in 1..Len(SourceLines(i)) :
     SourceLines(i)[n].kind = "assignment" /\ SourceLines(i)[n].key = key}

LastKeyLine(i, key) ==
  SourceLines(i)[CHOOSE n \in KeyLines(i, key) : \A m \in KeyLines(i, key) : m <= n]

AssignsWith(i, key, op) ==
  \E n \in KeyLines(i, key) : SourceLines(i)[n].operator = op

\* C11: when files F1 and F2, F1 before F2 in the list given to evaluate, both
\* assign K with "=" (F2 being the last file that assigns K, and "=" its last
\* assignment of K), the final env[K] is the value written in F2 and
\* metadata[K].source is F2's path.
C11_LaterFileWins ==
  pc = "done" =>
    \A i, j \in 1..Len(files) :
      (/\ i < j
       /\ AssignsWith(i, "K", "=")
       /\ AssignsWith(j, "K", "=")
       /\ LastKeyLine(j, "K").operator = "="
       /\ \A l \in (j + 1)..Len(files) : KeyLines(l, "K") = {})
      => /\ "K" \in DOMAIN env
         /\ env["K"] = WrittenValue(LastKeyLine(j, "K"))
         /\ metadata["K"].source = files[j].path

C11_Witness ==
  /\ pc = "done"
  /\ Len(files) = 2
  /\ files[1].path = DotSecret
  /\ files[2].path = DotSecretLocal
  /\ AssignsWith(1, "K", "=")
  /\ AssignsWith(2, "K", "=")
  /\ WrittenValue(LastKeyLine(1, "K")) = <<"b">>
  /\ WrittenValue(LastKeyLine(2, "K")) = <<"a">>
  /\ LastKeyLine(2, "K").operator = "="
  /\ env["K"] = <<"a">>
  /\ metadata["K"].source = DotSecretLocal

\* The candidates of resolveFiles in their order of precedence.
Candidates(o) ==
  <<IF o.file # <<>> THEN o.file ELSE BaseDir \o <<".secret">>,
    BaseDir \o <<".secret.local">>>>
    \o (IF o.profile # ""
        THEN <<BaseDir \o <<".secret." \o o.profile>>,
               BaseDir \o <<".secret." \o o.profile \o ".local">>>>
        ELSE <<>>)
    \o [i \in 1..Len(o.overlays) |->
          BaseDir \o <<"overlays", o.overlays[i] \o ".secret">>]

OnDisk(path) == (IF IsAbsolute(path) THEN path ELSE BaseDir \o path) \in DOMAIN fs

\* C12: resolveFiles returns exactly the candidates that exist (base file,
\* .secret.local, the two profile files when a profile is set, one overlay file
\* per requested overlay), in that order; a missing candidate is skipped and
\* the others keep their order.
C12_ResolveFilesOrder ==
  pc # "resolveFiles" =>
    resolvedFiles = SelectSeq(Candidates(options), OnDisk)

C12_Witness ==
  /\ pc = "parseAll"
  /\ options.file = <<>>
  /\ options.profile = "prod"
  /\ options.overlays = <<"y", "x">>
  /\ DOMAIN fs = {DotSecret, DotSecretProd, OverlayX, CustomSecret}
  /\ resolvedFiles = <<DotSecret, DotSecretProd, OverlayX>>

OnePerPath ==
  \A i, j \in 1..Len(files) :
    i # j => AbsoluteOf(files[i].path) # AbsoluteOf(files[j].path)

\* C13: parseAllFiles terminates for every set of files, also when they
\* include each other in a cycle or include themselves: the calls of
\* parseFileWithIncludes never nest deeper than the number of files, the
\* command reaches detectConflicts, and the output holds at most one ParsedFile
\* per absolute path.
C13_ParseAllFilesTerminates ==
  <>(pc = "detect" /\ OnePerPath /\ Cardinality(processedIncludes) <= Cardinality(DOMAIN fs))

C13_Witness ==
  /\ pc = "detect"
  /\ fs[DotSecret] = <<Include(DotSlash \o ToA)>>
  /\ fs[ASecret] = <<Include(ToB)>>
  /\ fs[BSecret] = <<Include(ToA)>>
  /\ Len(files) = 3
  /\ {DotSecret, ASecret, BSecret} \subseteq processedIncludes

\* The existing files named by the @include lines of the file at path abs.
RECURSIVE IncludedBy(_, _)
IncludedBy(abs, n) ==
  IF n > Len(fs[abs]) THEN <<>>
  ELSE LET line == fs[abs][n]
           target == NormalizeFrom(
                       SubSeq(abs, 1, Len(abs) - 1)
                         \o SplitPath(Unquote(Trim(line.rest))), 1, <<"">>)
       IN (IF line.kind = "include" /\ target \in DOMAIN fs
           THEN <<[path |-> target, included |-> TRUE]>> ELSE <<>>)
            \o IncludedBy(abs, n + 1)

\* The depth-first order of the files reached from the worklist todo, each
\* file once, a file's includes before the rest of the worklist.
RECURSIVE DepthFirst(_, _, _)
DepthFirst(todo, seen, out) ==
  IF todo = <<>> THEN out
  ELSE LET h == Head(todo)
       IN IF h.path \in seen THEN DepthFirst(Tail(todo), seen, out)
          ELSE DepthFirst(IncludedBy(h.path, 1) \o Tail(todo), seen \cup {h.path},
                 Append(out, IF h.included THEN TagIncluded(h.path) ELSE h.path))

\* C14: in the output of parseAllFiles the entries of the files a file P
\* includes follow P's own entry, in the order of P's @include lines and
\* depth-first, each tagged as included; the top-level files keep the order of
\* resolveFiles.
C14_IncludesDepthFirst ==
  pc \notin {"resolveFiles", "parseAll"} =>
    [i \in 1..Len(files) |-> files[i].path]
      = DepthFirst([i \in 1..Len(resolvedFiles) |->
                      [path |-> resolvedFiles[i], included |-> FALSE]], {}, <<>>)

C14_Witness ==
  /\ pc = "detect"
  /\ fs[DotSecret] = <<Include(DotSlash \o ToA), Include(ToC)>>
  /\ fs[ASecret] = <<Include(ToB)>>
  /\ fs[BSecret] = <<>>
  /\ DotSecretLocal \in DOMAIN fs
  /\ [i \in 1..Len(files) |-> files[i].path]
       = <<DotSecret, TagIncluded(ASecret), TagIncluded(BSecret),
           TagIncluded(CSecret), DotSecretLocal>>

\* The assignment a source line of a file makes, without its position.
Structure(line) ==
  LET a == ParseAssignment(line, 0)
  IN [key |-> a.key, operator |-> a.operator, expression |-> a.expression,
      options |-> a.options]

\* The entries of the parsed files that assign key.
Contributors(key) == {i \in 1..Len(files) : KeyLines(i, key) # {}}

Reported(key) == \E n \in 1..Len(conflicts) : conflicts[n].k = key

ReportedPaths(key) ==
  LET n == CHOOSE m \in 1..Len(conflicts) : conflicts[m].k = key
  IN {conflicts[n].v[m] : m \in 1..Len(conflicts[n].v)}

\* C15 (as stated): K is reported exactly when three or more files assign it
\* and their assignments are not all structurally identical; the report names
\* every contributing file.
C15_ConflictsThreeLayers ==
  pc \notin {"resolveFiles", "parseAll", "detect"} =>
    /\ Reported("K")
         <=> /\ Cardinality(Contributors("K")) >= 3
             /\ Cardinality(UNION {{Structure(SourceLines(i)[n]) :
                                        n \in KeyLines(i, "K")} :
                                      i \in Contributors("K")}) > 1
    /\ Reported("K")
         => ReportedPaths("K") = {files[i].path : i \in Contributors("K")}

\* C15 (amended): K is reported exactly when three or more files assign it and
\* the expressions of the last assignment of K in each of these files are not
\* all identical (operators and options are not compared); the report names
\* every contributing file.
C15_ConflictsLastExpressionPerFile ==
  pc \notin {"resolveFiles", "parseAll", "detect"} =>
    /\ Reported("K")
         <=> /\ Cardinality(Contributors("K")) >= 3
             /\ Cardinality({Structure(LastKeyLine(i, "K")).expression :
                               i \in Contributors("K")}) > 1
    /\ Reported("K")
         => ReportedPaths("K") = {files[i].path : i \in Contributors("K")}

C15_Witness ==
  /\ pc = "done"
  /\ Len(files) = 4
  /\ Cardinality(Contributors("K")) = 4
  /\ Reported("K")
  /\ ReportedPaths("K") = {DotSecret, DotSecretLocal, DotSecretProd, OverlayX}
  /\ LastKeyLine(4, "K").operator = "+="

(***************************************************************************)
(* Properties of profile sections                                          *)
(***************************************************************************)

WalkOver == pc \in {"resolve", "interpolate", "policies", "merge", "finish", "done"}

\* The assignment lines governed by a profile section.
ProfileGoverned ==
  {k \in AssignmentLines : GoverningSection(k).type = "profile"}

C17_OnlyDefaultWhenNoProfile ==
  (WalkOver /\ options.profile = "") =>
    \A k \in ProfileGoverned :
      GoverningSection(k).name # "default" => ~Logged(k)

(***************************************************************************)
(* Properties of the policy hooks                                          *)
(***************************************************************************)

\* The effect the policy returned at a recorded call.
EffectAt(n) == IF trace[n][1] \in Hooks THEN policy[trace[n][1]] ELSE "allow"

Expr(k) == ParseAssignment(content[k], k).expression

ProviderLines == {k \in AssignmentLines : Expr(k).provider.kind # "none"}

PipedLines == {k \in AssignmentLines : Expr(k).pipes # <<>>}

\* C18: when onStart returns deny, evaluate throws at once: no node of a file
\* is processed, no provider, pipe or other hook is called, and no result is
\* produced.
C18_OnStartDenyAborts ==
  policy.onStart = "deny" =>
    /\ pc \in {"parse", "start", "aborted"}
    /\ pc = "aborted" =>
         /\ trace = << <<"onStart", "">> >>
         /\ fileIdx = 1 /\ nodeIdx = 1
         /\ assignmentLog = <<>>
         /\ env = EmptyMap /\ metadata = EmptyMap
         /\ errors = <<>> /\ warnings = <<>>

C18_Witness ==
  /\ pc = "aborted"
  /\ policy.onStart = "deny"
  /\ Len(content) = 3
  /\ ProviderLines # {}
  /\ PipedLines # {}
  /\ Len(files) = 1
  /\ Len(files[1].nodes) = 3
  /\ trace = << <<"onStart", "">> >>

\* C19 (as stated): a deny returned by any of the five hooks is fatal: evaluate
\* does not return a result after a hook it called has returned deny.
C19_AnyDenyIsFatal ==
  pc = "done" => \A n \in 1..Len(trace) : EffectAt(n) # "deny"

AbortingHooks == {"onStart", "onKeyInject", "onFinish"}

RecordedHooks == {"onProvider", "onPipe"}

DenialMessages ==
  {"Failed to resolve " \o key \o ": Policy denied " \o what \o ": " \o Reason :
     key \in {"X", "A", "B"}, what \in {"provider access", "pipe"}}

\* C19 (amended): a deny from onStart, onKeyInject or onFinish ends evaluate by
\* a throw at that call; a deny from onProvider or onPipe never does: each one
\* is recorded as one "Failed to resolve <key>: Policy denied ..." entry of
\* errors and evaluate goes on to return its result.
C19_DenyFatalOutsideResolution ==
  /\ \A n \in 1..Len(trace) :
       (trace[n][1] \in AbortingHooks /\ EffectAt(n) = "deny")
         => pc = "aborted" /\ n = Len(trace)
  /\ pc = "aborted"
       => trace[Len(trace)][1] \in AbortingHooks /\ EffectAt(Len(trace)) = "deny"
  /\ Cardinality({n \in 1..Len(trace) :
                    trace[n][1] \in RecordedHooks /\ EffectAt(n) = "deny"})
       = Cardinality({n \in 1..Len(errors) : errors[n] \in DenialMessages})

C19_Witness ==
  /\ pc = "done"
  /\ policy.onPipe = "deny"
  /\ PipedLines # {}
  /\ \E n \in 1..Len(trace) : trace[n] = <<"onPipe", "upper">>
  /\ errors = <<"Failed to resolve A: Policy denied pipe: " \o Reason>>
  /\ "A" \notin DOMAIN env

\* The lines that assign key without a provider.
PlainLines(key) ==
  {k \in AssignmentLines \ ProviderLines : content[k].key = key}

PlainKeys == {content[k].key : k \in AssignmentLines}

PlainValue(k) ==
  IF Expr(k).pipes = <<>> THEN Expr(k).literal
  ELSE PipeApply(Expr(k).pipes[1].name, Expr(k).literal)

\* C20: a deny from onProvider affects only the key being resolved: the hook
\* is asked before the provider is called and the provider is not called;
\* evaluate returns with one "Policy denied provider access" error per denied
\* reference; the denied entry contributes no value, and the other
\* assignments resolve as usual.
C20_ProviderDenyIsPerKey ==
  /\ \A n \in 1..Len(trace) :
       trace[n][1] = "resolveSingle"
         => /\ n > 1
            /\ trace[n - 1] = <<"onProvider", trace[n][2]>>
            /\ policy.onProvider # "deny"
  /\ policy.onProvider = "deny" =>
       /\ pc # "aborted"
       /\ pc = "done" =>
            /\ \A k \in ProviderLines :
                 GetProviderName(Expr(k).provider) \in ProviderRegistry
                   => \E n \in 1..Len(errors) :
                        errors[n] = "Failed to resolve " \o content[k].key
                                      \o ": Policy denied provider access: " \o Reason
            /\ Cardinality({n \in 1..Len(trace) : trace[n][1] = "onProvider"})
                 = Cardinality({k \in ProviderLines :
                      GetProviderName(Expr(k).provider) \in ProviderRegistry})
            /\ \A key \in {"X", "A", "B"} :
                 IF PlainLines(key) = {}
                 THEN key \notin DOMAIN env /\ key \notin DOMAIN metadata
                 ELSE /\ key \in DOMAIN env
                      /\ env[key] = PlainValue(CHOOSE k \in PlainLines(key) :
                                                 \A m \in PlainLines(key) : m <= k)

C20_Witness ==
  /\ pc = "done"
  /\ policy.onProvider = "deny"
  /\ Len(content) = 3
  /\ content[1].key = "X" /\ 1 \notin ProviderLines
  /\ content[2].key = "X" /\ 2 \in ProviderLines
  /\ content[3].key = "A"
  /\ trace = << <<"onStart", "">>, <<"onProvider", "env">>, <<"onPipe", "upper">>,
               <<"pipe.apply", "upper">>, <<"onKeyInject", "X">>,
               <<"onKeyInject", "A">>, <<"onFinish", "">> >>
  /\ errors = <<"Failed to resolve X: Policy denied provider access: " \o Reason>>
  /\ env["X"] = <<"x">>
  /\ env["A"] = <<"A">>

\* The subjects of the recorded calls of one kind, in order.
RECURSIVE SubjectsOf(_, _)
SubjectsOf(what, n) ==
  IF n > Len(trace) THEN <<>>
  ELSE (IF trace[n][1] = what THEN <<trace[n][2]>> ELSE <<>>)
         \o SubjectsOf(what, n + 1)

ResolutionCalls == {"onProvider", "resolveSingle", "onPipe", "pipe.apply"}

\* C21: onKeyInject is consulted exactly once for each final key of the
\* configuration, after every history entry is resolved and before the merge
\* of the parent environment, hence never for a variable that only the parent
\* defines; a deny makes evaluate throw, a warn appends "Policy warning for
\* key K: <reason>".
C21_OnKeyInjectOncePerFinalKey ==
  /\ pc \in {"parse", "start", "walk", "resolve", "interpolate", "policies"}
       => SubjectsOf("onKeyInject", 1) = <<>>
  /\ pc \in {"merge", "finish", "done"} =>
       LET asked == SubjectsOf("onKeyInject", 1)
       IN /\ \A i, j \in 1..Len(asked) : asked[i] = asked[j] => i = j
          /\ SeqRange(asked) = DOMAIN metadata
          /\ pc = "merge" => SeqRange(asked) = DOMAIN env
          /\ SeqRange(asked) \cap ((DOMAIN parentEnv) \ PlainKeys) = {}
          /\ policy.onKeyInject # "deny" \/ asked = <<>>
          /\ policy.onKeyInject = "warn" =>
               \A i \in 1..Len(asked) :
                 \E n \in 1..Len(warnings) :
                   warnings[n] = "Policy warning for key " \o asked[i] \o ": " \o Reason
  /\ \A n, m \in 1..Len(trace) :
       (trace[n][1] = "onKeyInject" /\ trace[m][1] \in ResolutionCalls) => m < n
  /\ (pc = "aborted" /\ policy.onKeyInject = "deny")
       => Len(SubjectsOf("onKeyInject", 1)) = 1

C21_Witness ==
  /\ pc = "done"
  /\ policy.onKeyInject = "warn"
  /\ ~options.pure
  /\ SubjectsOf("onKeyInject", 1) = <<"X", "A">>
  /\ DOMAIN env = {"X", "A", "P"}
  /\ warnings = <<"Policy warning for key X: " \o Reason,
                  "Policy warning for key A: " \o Reason>>

\* What source line k resolves to when every hook allows: [ok, value].
AllowedValue(k) ==
  IF k \in ProviderLines
  THEN LET name == GetProviderName(Expr(k).provider)
       IN IF name \in ProviderRegistry
          THEN LET r == ResolveSingle(name, Expr(k).provider)
               IN [ok |-> r.ok, value |-> r.value]
          ELSE [ok |-> FALSE, value |-> <<>>]
  ELSE [ok |-> TRUE, value |-> PlainValue(k)]

ResolvingLines(key) ==
  {k \in AssignmentLines : content[k].key = key /\ AllowedValue(k).ok}

\* The env of the result when every hook allows (the assignments are all "=").
AllowedEnv ==
  LET keys == {key \in PlainKeys : ResolvingLines(key) # {}}
      own == [key \in keys |->
                AllowedValue(CHOOSE k \in ResolvingLines(key) :
                               \A m \in ResolvingLines(key) : m <= k).value]
  IN IF options.pure THEN own ELSE MergeEnv(own, parentEnv)

WarnCalls == {n \in 1..Len(trace) : EffectAt(n) = "warn"}

\* C22: warnings never stop evaluation: when the hooks return warn in any
\* combination and none returns deny, evaluate returns, the env is the one
\* obtained when every hook allows, and each warn adds one entry to warnings.
C22_WarningsNeverStop ==
  (\A h \in Hooks : policy[h] # "deny") =>
    /\ pc # "aborted"
    /\ Len(warnings) = Cardinality(WarnCalls)
    /\ pc = "done" => env = AllowedEnv

C22_Witness ==
  /\ pc = "done"
  /\ \A h \in Hooks : policy[h] = "warn"
  /\ Len(content) = 2
  /\ 1 \in ProviderLines /\ content[1].key = "X"
  /\ 2 \in PipedLines
  /\ options.pure
  /\ env = ("X" :> <<"q">>) @@ ("A" :> <<"A">>)
  /\ warnings = <<Reason, Reason, Reason,
                  "Policy warning for key X: " \o Reason,
                  "Policy warning for key A: " \o Reason, Reason>>

(***************************************************************************)
(* JSONPolicy (src/src/core/policy.ts).  A JavaScript value is an atom, an *)
(* object (a map from property names to values) or undefined.              *)
(***************************************************************************)

Atom(v) == [t |-> "atom", v |-> v, f |-> EmptyMap]

Obj(f) == [t |-> "object", v |-> "", f |-> f]

Missing == [t |-> "undefined", v |-> "", f |-> EmptyMap]

\* An optional property of the configuration: absent, or present with a value.
Absent == <<>>

Some(x) == <<x>>

\* path.split(".")
RECURSIVE SplitDots(_)
SplitDots(chars) ==
  LET i == IndexOfChar(chars, ".", 1)
  IN IF i = 0 THEN <<Join(chars)>>
     ELSE <<Join(SubSeq(chars, 1, i - 1))>> \o SplitDots(SubSeq(chars, i + 1, Len(chars)))

\* The loop of getNestedValue from part i on.
RECURSIVE GetNestedFrom(_, _, _)
GetNestedFrom(current, parts, i) ==
  IF i > Len(parts) THEN current
  ELSE IF current.t = "undefined" THEN Missing
  ELSE IF current.t = "object" /\ parts[i] \in DOMAIN current.f
       THEN GetNestedFrom(current.f[parts[i]], parts, i + 1)
       ELSE Missing

GetNestedValue(obj, path) == GetNestedFrom(obj, SplitDots(path), 1)

\* One entry of rule.match against the context: value.includes(contextValue)
\* for a list, contextValue === value otherwise.
MatchesEntry(entry, context) ==
  LET contextValue == GetNestedValue(context, entry.key)
  IN IF entry.kind = "list"
     THEN \E n \in 1..Len(entry.values) : entry.values[n] = contextValue
     ELSE contextValue = entry.value

\* The loop of matchesRule over Object.entries(rule.match) from entry i on.
RECURSIVE MatchesFrom(_, _, _)
MatchesFrom(match, context, i) ==
  IF i > Len(match) THEN TRUE
  ELSE IF ~MatchesEntry(match[i], context) THEN FALSE
  ELSE MatchesFrom(match, context, i + 1)

MatchesRule(rule, context) ==
  IF rule.match = Absent THEN TRUE ELSE MatchesFrom(rule.match[1], context, 1)

\* Index of the first rule from i on that matches, 0 when none does.
RECURSIVE FirstMatch(_, _, _)
FirstMatch(rules, context, i) ==
  IF i > Len(rules) THEN 0
  ELSE IF MatchesRule(rules[i], context) THEN i
  ELSE FirstMatch(rules, context, i + 1)

\* Index of the last rule that matches, 0 when none does.
LastMatch(rules, context) ==
  IF \E i \in 1..Len(rules) : MatchesRule(rules[i], context)
  THEN CHOOSE i \in 1..Len(rules) :
         /\ MatchesRule(rules[i], context)
         /\ \A j \in (i + 1)..Len(rules) : ~MatchesRule(rules[j], context)
  ELSE 0

\* this.config.defaults?.effect || "allow"
DefaultEffect(config) ==
  IF config.defaults = Absent THEN "allow" ELSE config.defaults[1].effect

\* evaluateRules with the last matching rule deciding.
EvaluateRules_LastMatch(config, rules, context) ==
  LET i == LastMatch(rules, context)
  IN IF i # 0 THEN [effect |-> rules[i].effect, reason |-> rules[i].reason]
     ELSE [effect |-> DefaultEffect(config), reason |-> Absent]

EvaluateRules(config, rules, context) ==
  LET i == FirstMatch(rules, context, 1)
  IN IF i # 0 THEN [effect |-> rules[i].effect, reason |-> rules[i].reason]
     ELSE [effect |-> DefaultEffect(config), reason |-> Absent]

\* this.config.rules?.<type> || []
RulesOf(config, type) ==
  IF config.rules = Absent THEN <<>>
  ELSE IF config.rules[1][type] = Absent THEN <<>>
  ELSE config.rules[1][type][1]

\* The property that a hook adds to its PolicyContext: { ...ctx, ref } etc.
HookContext(call) ==
  IF call.hook = "provider" THEN Obj(call.ctx.f @@ ("ref" :> call.subject))
  ELSE IF call.hook = "pipe" THEN Obj(call.ctx.f @@ ("call" :> call.subject))
  ELSE IF call.hook = "keyInject" THEN Obj(call.ctx.f @@ ("key" :> call.subject))
  ELSE call.ctx

\* onStart, onProvider, onPipe, onKeyInject, onFinish of JSONPolicy.
JSONPolicyHook(config, call) ==
  EvaluateRules(config, RulesOf(config, call.hook), HookContext(call))

\* A direct call of one hook of new JSONPolicy(policy) with the call in value.
JSONPolicyCall ==
  /\ pc = "call"
  /\ output' = JSONPolicyHook(policy, value)
  /\ pc' = "returned"
  /\ UNCHANGED <<inputVars, cacheVars, overlayVars, files, fileIdx, nodeIdx,
                 currentSection, env, metadata, metaOrder, warnings, errors,
                 assignmentLog, resolveIdx, withContext, trace, value>>

NextJSONPolicy == JSONPolicyCall

(***************************************************************************)
(* JSON policies: rules over ref.scheme and profile, as in the test        *)
(* "Policy - JSON policy format".                                          *)
(***************************************************************************)

RefScheme == <<"r", "e", "f", ".", "s", "c", "h", "e", "m", "e">>

Profile == <<"p", "r", "o", "f", "i", "l", "e">>

Exact(key, v) == [key |-> key, kind |-> "exact", value |-> Atom(v), values |-> <<>>]

OneOf(key, vs) == [key |-> key, kind |-> "list", value |-> Missing, values |-> vs]

Rule(match, effect, reason) ==
  [match |-> match, effect |-> effect, reason |-> Some(reason)]

JSONRules ==
  { Rule(Some(<<Exact(RefScheme, "file")>>), "deny", "r1"),
    Rule(Some(<<OneOf(Profile, <<Atom("production"), Atom("staging")>>)>>), "warn", "r2"),
    Rule(Some(<<Exact(RefScheme, "file"), Exact(Profile, "production")>>), "warn", "r3"),
    Rule(Some(<<>>), "allow", "r4"),
    Rule(Absent, "deny", "r5") }

RuleLists == {Absent} \cup {Some(l) : l \in Programs(JSONRules, MaxRules)}

JSONConfigs ==
  {[rules |-> r, defaults |-> d] :
     r \in {Absent} \cup {Some(("start" :> st) @@ ("provider" :> pr)
                                 @@ ("pipe" :> Absent) @@ ("keyInject" :> Absent)
                                 @@ ("finish" :> Absent)) :
                          st \in {Absent, Some(<<>>), Some(<<Rule(Absent, "warn", "r6")>>)},
                          pr \in RuleLists},
     d \in {Absent, Some([effect |-> "allow"]), Some([effect |-> "deny"])}}

PolicyContexts ==
  {Obj("profile" :> Atom(pr)) : pr \in {"production", "dev"}} \cup {Obj(EmptyMap)}

HookCalls ==
  {[hook |-> "provider", ctx |-> c, subject |-> Obj("scheme" :> Atom(sc))] :
     c \in PolicyContexts, sc \in {"file", "env"}}
    \cup {[hook |-> h, ctx |-> c, subject |-> Missing] :
            h \in {"start", "finish"}, c \in PolicyContexts}

\* The state of a direct call of a function with argument arg.
StartCall(arg) ==
  /\ value = arg
  /\ output = <<>>
  /\ pc = "call"
  /\ content = <<>>
  /\ options = Options("", <<>>, FALSE, FALSE)
  /\ parentEnv = EmptyMap
  /\ fs = EmptyMap
  /\ resolvedFiles = <<>>
  /\ topIdx = 1
  /\ processedIncludes = {}
  /\ stack = <<>>
  /\ conflicts = <<>>
  /\ metaOrder = <<>>
  /\ trace = <<>>
  /\ files = <<>>
  /\ fileIdx = 1
  /\ nodeIdx = 1
  /\ currentSection = NoSection
  /\ env = EmptyMap
  /\ metadata = EmptyMap
  /\ warnings = <<>>
  /\ errors = <<>>
  /\ assignmentLog = <<>>
  /\ resolveIdx = 1
  /\ withContext = EmptyMap
  /\ NoCache

InitJSONPolicy ==
  \E config \in JSONConfigs, call \in HookCalls :
    /\ StartCall(call)
    /\ policy = config

SpecJSONPolicy == InitJSONPolicy /\ [][NextJSONPolicy]_vars

(***************************************************************************)
(* Properties of JSONPolicy                                                *)
(***************************************************************************)

\* The rule list configured for the hook that was called, Absent when none.
ConfiguredRules ==
  IF policy.rules = Absent THEN Absent ELSE policy.rules[1][value.hook]

\* What a dot path of a match map names in the context of the call.
Named(key) ==
  IF key = Profile
  THEN IF "profile" \in DOMAIN value.ctx.f THEN value.ctx.f["profile"] ELSE Missing
  ELSE IF value.hook = "provider" THEN value.subject.f["scheme"] ELSE Missing

\* A rule's match map is satisfied by the context of the call.
Satisfied(rule) ==
  rule.match = Absent
    \/ \A n \in 1..Len(rule.match[1]) :
         LET entry == rule.match[1][n]
         IN IF entry.kind = "list" THEN Named(entry.key) \in SeqRange(entry.values)
            ELSE Named(entry.key) = entry.value

ConfiguredDefault ==
  IF policy.defaults = Absent THEN "allow" ELSE policy.defaults[1].effect

FirstSatisfied(rules) ==
  CHOOSE i \in 1..Len(rules) :
    Satisfied(rules[i]) /\ \A j \in 1..(i - 1) : ~Satisfied(rules[j])

\* C23 (as stated): a hook returns the effect of the first rule in list order
\* whose match map the context satisfies, the configured default (allow when
\* none is configured) when no rule matches, and allow when its hook type has
\* no rule list.
C23_FirstMatchElseDefaultElseAllow ==
  pc = "returned" =>
    output.effect =
      IF ConfiguredRules = Absent THEN "allow"
      ELSE IF \E i \in 1..Len(ConfiguredRules[1]) : Satisfied(ConfiguredRules[1][i])
           THEN ConfiguredRules[1][FirstSatisfied(ConfiguredRules[1])].effect
           ELSE ConfiguredDefault

\* C23 (amended): as above, but a hook type without a rule list returns the
\* configured default effect, like a list in which no rule matches.
C23_FirstMatchElseDefault ==
  pc = "returned" =>
    output.effect =
      IF ConfiguredRules # Absent
           /\ \E i \in 1..Len(ConfiguredRules[1]) : Satisfied(ConfiguredRules[1][i])
      THEN ConfiguredRules[1][FirstSatisfied(ConfiguredRules[1])].effect
      ELSE ConfiguredDefault

C23_Witness ==
  /\ pc = "returned"
  /\ value.hook = "finish"
  /\ policy.rules # Absent
  /\ policy.rules[1]["finish"] = Absent
  /\ policy.rules[1]["provider"] # Absent
  /\ Len(policy.rules[1]["provider"][1]) = 2
  /\ policy.defaults = Some([effect |-> "deny"])
  /\ output.effect = "deny"

(***************************************************************************)
(* Resolution errors                                                       *)
(***************************************************************************)

\* The lines of the content that are directives.
DirectiveAt(i) == content[i].kind \in {"import", "from"}

\* C24: a resolution error never aborts evaluate: with a policy that allows
\* everything, whatever provider an assignment, an @import or an @from names
\* and whatever its fetch does, evaluate does not reject, and once it has
\* returned every key assigned a literal is in the env.
C24_ResolutionErrorNeverAborts ==
  /\ pc # "aborted"
  /\ pc = "done" =>
       \A i \in 1..Len(content) :
         (content[i].kind = "assignment" /\ content[i].key = "A") => "A" \in DOMAIN env

\* The unknown provider of an assignment expression is recorded and the
\* evaluation goes on.
C24_AssignmentErrorRecorded ==
  /\ pc = "done"
  /\ Len(content) = 2
  /\ content[1].kind = "assignment" /\ content[1].key = "X"
  /\ content[2].kind = "assignment" /\ content[2].key = "A"
  /\ "X" \notin DOMAIN env
  /\ env["A"] = <<"a">>
  /\ Len(errors) = 1

\* C25: error text is independent of secret values: when the resolution of
\* one assignment fails at the same pipe for two values entering the pipes,
\* the errors recorded by the two runs are the same.
C25_ErrorTextIndependentOfSecret ==
  (/\ pc = "returned"
   /\ output[1].errors # <<>>
   /\ output[2].errors # <<>>)
    => output[1].errors = output[2].errors

\* Two failing values that lead to the same text: both are cut off before the
\* closing quote at the same position.
C25_SameFailure ==
  /\ pc = "returned"
  /\ value.first = <<"\"", "x">>
  /\ value.second = <<"\"", "y">>
  /\ output[1].errors = output[2].errors
  /\ Len(output[1].errors) = 1

(***************************************************************************)
(* Parse errors and block directives                                       *)
(***************************************************************************)

\* The line is the header of a block directive.
OpensFrom(line) ==
  StartsWith(Trim(line), <<"@", "f", "r", "o", "m", " ">>)
    /\ FirstFromMatch(Trim(line)) # <<>>

OpensIf(line) ==
  StartsWith(Trim(line), <<"@", "i", "f", " ">>)
    /\ FirstIfMatch(Trim(line)) # <<>>

OpensWith(line) ==
  StartsWith(Trim(line), <<"w", "i", "t", "h", " ">>)
    /\ FirstWithMatch(Trim(line)) # <<>>

OpensBlock(line) == OpensFrom(line) \/ OpensIf(line) \/ OpensWith(line)

\* A line that begins like a key and is not of the assignment form.
Malformed(line) ==
  /\ Trim(line) # <<>>
  /\ Trim(line)[1] \in UpperLetters
  /\ ~MatchAssignment_Trimmed(line).ok

\* C26: parse fails with a ParseError whenever the input, here one without
\* block directives, has a line that is not blank, not a comment, not a
\* section header, not a directive and not of the assignment form.
C26_UnrecognisedLineIsParseError ==
  (/\ pc = "returned"
   /\ \A i \in 1..Len(value) : ~OpensBlock(value[i])
   /\ \E i \in 1..Len(value) : Malformed(value[i]))
    => output.status = "ParseError"

\* C27: parse fails with a ParseError when the first line opens a block and
\* no line of the input consists solely of "}".
C27_UnterminatedBlockIsParseError ==
  (/\ pc = "returned"
   /\ Len(value) >= 1
   /\ OpensBlock(value[1])
   /\ \A i \in 1..Len(value) : ~IsBlockEnd(value[i]))
    => output.status = "ParseError"

\* The first line from i on that consists solely of "}", 0 when none.
RECURSIVE FirstBlockEnd(_, _)
FirstBlockEnd(lines, i) ==
  IF i > Len(lines) THEN 0
  ELSE IF IsBlockEnd(lines[i]) THEN i ELSE FirstBlockEnd(lines, i + 1)

\* The line is blank or, once trimmed, of the assignment form.
PlainBodyLine(line) == Trim(line) = <<>> \/ MatchAssignment_Trimmed(line).ok

\* The assignment nodes of the lines i..j of a block body.
RECURSIVE BodyNodes(_, _, _)
BodyNodes(lines, i, j) ==
  IF i > j THEN <<>>
  ELSE (IF Trim(lines[i]) = <<>> THEN <<>>
        ELSE <<[type |-> "assignment",
                data |-> ParseAssignment(MatchAssignment_Trimmed(lines[i]), i)]>>)
         \o BodyNodes(lines, i + 1, j)

\* C28: for an @if or with block opened on the first line whose body lines
\* are blank lines and assignments, parse returns, the body of the directive
\* is the sequence of the assignments between the header and the first "}",
\* and the nodes after the directive are those of the lines after the "}".
C28_BlockBodyIsTheLinesUpToTheEnd ==
  (/\ pc = "returned"
   /\ Len(value) >= 1
   /\ OpensIf(value[1]) \/ OpensWith(value[1])
   /\ FirstBlockEnd(value, 2) # 0
   /\ \A i \in 2..(FirstBlockEnd(value, 2) - 1) : PlainBodyLine(value[i])
   /\ ParseFrom(value, FirstBlockEnd(value, 2) + 1).status = "ok")
    => /\ output.status = "ok"
       /\ Len(output.nodes) >= 1
       /\ output.nodes[1].type = "directive"
       /\ output.nodes[1].data.body = BodyNodes(value, 2, FirstBlockEnd(value, 2) - 1)
       /\ Tail(output.nodes) = ParseFrom(value, FirstBlockEnd(value, 2) + 1).nodes

\* A block whose body is one assignment that is not indented: the with
\* directive has it in its body and parsing goes on after the "}".
C28_UnindentedWithBody ==
  /\ pc = "returned"
  /\ Len(value) = 4
  /\ OpensWith(value[1])
  /\ value[2] = <<"A", "=", "a">>
  /\ IsBlockEnd(value[3])
  /\ value[4] = <<"A", "=", "a">>
  /\ output.status = "ok"
  /\ Len(output.nodes) = 2
  /\ Len(output.nodes[1].data.body) = 1
  /\ output.nodes[2].type = "assignment"

(***************************************************************************)
(* The result of evaluate                                                  *)
(***************************************************************************)

\* The first result has been returned and evaluate was called again.
CalledAgain == output # <<>>

\* this.env is still the object the first result holds: applyInterpolations
\* of the second call, which assigns a new object to this.env, has not run.
EnvIsReturnedObject == CalledAgain /\ pc \in {"start", "walk", "resolve"}

\* A step of the second call that leaves the objects of the first result as
\* they are.  metadata, warnings and errors are never assigned, so the
\* fields stay the objects the first result holds.
ReturnedResultKept ==
  CalledAgain =>
    /\ metadata' = metadata
    /\ warnings' = warnings
    /\ errors' = errors
    /\ EnvIsReturnedObject => env' = env

\* C29: the result of evaluate is an immutable snapshot: no step of a later
\* evaluate call on the same instance changes the env, metadata, warnings
\* or errors of the result returned before, and the second call over the
\* same files returns the same env, warnings and errors as the first.
C29_ResultIsImmutableSnapshot ==
  /\ [][ReturnedResultKept]_vars
  /\ []((CalledAgain /\ pc = "done") =>
          /\ env = output.env
          /\ warnings = output.warnings
          /\ errors = output.errors)

\* The second call over a single plain assignment returns what the first
\* returned.
C29_SameResultAgain ==
  /\ CalledAgain
  /\ pc = "done"
  /\ Len(content) = 1
  /\ env = output.env
  /\ warnings = output.warnings
  /\ errors = output.errors
  /\ "A" \in DOMAIN env

(***************************************************************************)
(* Batch resolution                                                        *)
(***************************************************************************)

\* The secrets of the listing that the prefix lets through.
Wanted == {i \in 1..Len(value.secrets) :
             ~SkippedByPrefix(value.secrets[i].name, value.prefix)}

\* The map of the secrets whose fetch succeeds, whatever the order.
ExpectedBatch ==
  [k \in {BatchKey(value.secrets[i].name, value.prefix) :
            i \in {j \in Wanted : value.secrets[j].outcome = "ok"}} |->
     LET i == CHOOSE j \in Wanted :
                BatchKey(value.secrets[j].name, value.prefix) = k
     IN value.secrets[i].decoded]

AuditLogged(name) ==
  \E n \in 1..Len(output.audit) :
    output.audit[n].key = Join(name) /\ ~output.audit[n].success

\* C30: once the secrets are listed, resolveBatch does not reject; the map
\* it returns is the map of the secrets whose fetch succeeded, the same for
\* every completion order; and every secret whose fetch failed is logged to
\* the audit sink.
C30_BatchIsDeterministicAndIsolated ==
  /\ value.listOk => pc # "rejected"
  /\ pc = "returned" =>
       /\ output.result = ExpectedBatch
       /\ \A i \in Wanted : value.secrets[i].outcome # "ok" => AuditLogged(value.secrets[i].name)

\* The part of the claim that holds: the batch is not rejected and the map
\* returned does not depend on the completion order.
C30_MapIndependentOfOrder ==
  /\ value.listOk => pc # "rejected"
  /\ pc = "returned" =>
       /\ output.result = ExpectedBatch
       /\ \A i \in Wanted : value.secrets[i].outcome = "throws" => AuditLogged(value.secrets[i].name)

\* Two secrets fetched, the second completing first, and a third whose fetch
\* was rejected.
C30_OutOfOrder ==
  /\ pc = "returned"
  /\ Len(value.secrets) = 3
  /\ value.prefix = <<>>
  /\ value.secrets[1].outcome = "ok"
  /\ value.secrets[2].outcome = "ok"
  /\ value.secrets[3].outcome = "throws"
  /\ output.order = <<Join(value.secrets[2].name), Join(value.secrets[1].name)>>
  /\ Len(output.audit) = 1

(***************************************************************************)
(* Policy consults before provider calls                                   *)
(***************************************************************************)

\* Entry i of the trace is a call of a provider.
ProviderCallAt(i) == trace[i][1] \in {"resolveSingle", "resolveBatch"}

\* Entry i of the trace comes right after an onProvider consult for the same
\* provider, and the effect returned was not deny.
ConsultedAt(i) ==
  /\ i > 1
  /\ trace[i - 1] = <<"onProvider", trace[i][2]>>
  /\ policy.onProvider # "deny"

\* C31: no provider is invoked without a policy consult: every resolveSingle
\* or resolveBatch call made during evaluate, from an assignment, an @import
\* or an @from, comes after an onProvider consult for that reference whose
\* effect was not deny.
C31_NoProviderCallWithoutConsult ==
  \A i \in 1..Len(trace) : ProviderCallAt(i) => ConsultedAt(i)

\* The resolveSingle of an @from mapping on the env provider is reached
\* without any consult.
C31_FromCallsUnconsulted ==
  /\ pc = "done"
  /\ Len(content) = 1
  /\ content[1].kind = "from"
  /\ \E i \in 1..Len(trace) :
       trace[i] = <<"resolveSingle", "env">> /\ ~ConsultedAt(i)

(***************************************************************************)
(* "?=" to a key that is already present                                   *)
(***************************************************************************)

\* The content is an @import followed by "?=" assignments to key.
ImportThenConditional(key) ==
  /\ Len(content) >= 2
  /\ content[1].kind = "import"
  /\ \A i \in 2..Len(content) :
       /\ content[i].kind = "assignment"
       /\ content[i].key = key
       /\ content[i].operator = "?="

\* The replay is about to fold the history of key, and key is in env and
\* metadata as the batch of the @import wrote it.
FoldsOverImported(key) ==
  /\ pc = "resolve"
  /\ resolveIdx <= Len(assignmentLog)
  /\ assignmentLog[resolveIdx].key = key
  /\ key \in DOMAIN env
  /\ key \in DOMAIN metadata
  /\ metadata[key].provider = "gcp"

\* C32: a "?=" assignment to a key that is already in the environment map
\* when it is encountered, here a key written by an earlier @import, is a
\* no-op: the replay leaves env[K] and metadata[K] as the @import wrote them.
C32_ConditionalKeepsEarlierWrite ==
  [][(ImportThenConditional("XA") /\ FoldsOverImported("XA"))
       => /\ "XA" \in DOMAIN env'
          /\ env'["XA"] = env["XA"]
          /\ "XA" \in DOMAIN metadata'
          /\ metadata'["XA"] = metadata["XA"]]_vars

\* The run in which the batch wrote XA = v ends with the value of the "?=".
C32_ConditionalReplacesImported ==
  /\ pc = "done"
  /\ ImportThenConditional("XA")
  /\ Len(trace) >= 2
  /\ trace[2] = <<"resolveBatch", "gcp">>
  /\ env["XA"] = <<"b">>
  /\ metadata["XA"].provider = ""

(***************************************************************************)
(* evaluate over parsed files that hold block directives: the "with" and    *)
(* "@if" nodes with the assignment nodes of their bodies.                  *)
(***************************************************************************)
MaxBlockNodes == 2

AssignmentOf(line) == [type |-> "assignment", data |-> ParseAssignment(line, 1)]

WithNode(provider, argsStr, body) ==
  [type |-> "directive",
   data |-> [type |-> "with", provider |-> provider, args |-> ParseArgs(argsStr),
             body |-> body, location |-> 1]]

IfNode(condition, body) ==
  [type |-> "directive",
   data |-> [type |-> "if", condition |-> condition, body |-> body,
             location |-> 1]]

\* profile == "lit"
ProfileIs(lit) ==
  <<"p", "r", "o", "f", "i", "l", "e", " ", "=", "=", " ">> \o Q(lit)

\* env("name") == "lit"
EnvIs(name, lit) ==
  <<"e", "n", "v", "(">> \o Q(name) \o <<")", " ", "=", "=", " ">> \o Q(lit)

AndAlso == <<" ", "&", "&", " ">>

Prod == <<"p", "r", "o", "d">>

NameX == NameArg(<<"X">>)
NameP == NameArg(<<"P">>)
DefaultD == <<"d", "e", "f", "a", "u", "l", "t", "=">> \o Q(<<"d">>)

FlagBody == <<AssignmentOf(Assign(FALSE, "F", "=", <<" ">> \o Q(<<"1">>)))>>

\* The conditions: the two supported forms, another operator, and clauses
\* joined by &&.
Conditions ==
  { ProfileIs(Prod),
    EnvIs(<<"P">>, <<"q">>),
    EnvIs(<<"P">>, <<"n">>),
    <<"p", "r", "o", "f", "i", "l", "e", " ", "!", "=", " ">> \o Q(<<"d", "e", "v">>),
    ProfileIs(Prod) \o AndAlso \o EnvIs(<<"P">>, <<"n">>),
    EnvIs(<<"P">>, <<"q">>) \o AndAlso \o ProfileIs(Prod) }

\* A with block on the env provider that gives a default value or a name to
\* the reference in its body, references outside a block, and @if blocks.
BlockNodes ==
  { WithNode("env", DefaultD,
             <<AssignmentOf(Assign(FALSE, "A", "=", EnvCall(NameX)))>>),
    WithNode("env", NameP,
             <<AssignmentOf(Assign(FALSE, "A", "=", EnvCall(DefaultD)))>>),
    AssignmentOf(Assign(FALSE, "B", "=", EnvCall(NameX))),
    AssignmentOf(Assign(FALSE, "B", "=", EnvCall(NameP))) }
    \cup {IfNode(c, FlagBody) : c \in Conditions}


\* evaluate(files) for files given as they are.
NextEvaluate ==
  \/ OnStart
  \/ EvaluateFile
  \/ ResolveExpressions
  \/ ApplyInterpolations
  \/ CheckPolicies
  \/ MergeParentEnv
  \/ OnFinish

\* new Evaluator(cache, policy, audit, o) about to run evaluate(f).
StartEvaluate(f, o, p) ==
  /\ content = <<>>
  /\ options = o
  /\ parentEnv = p
  /\ pc = "start"
  /\ fs = EmptyMap
  /\ resolvedFiles = <<>>
  /\ topIdx = 1
  /\ processedIncludes = {}
  /\ stack = <<>>
  /\ conflicts = <<>>
  /\ metaOrder = <<>>
  /\ trace = <<>>
  /\ files = f
  /\ fileIdx = 1
  /\ nodeIdx = 1
  /\ currentSection = NoSection
  /\ env = EmptyMap
  /\ metadata = EmptyMap
  /\ warnings = <<>>
  /\ errors = <<>>
  /\ assignmentLog = <<>>
  /\ resolveIdx = 1
  /\ withContext = EmptyMap
  /\ NoCache
  /\ value = <<>>
  /\ output = <<>>

InitBlocks ==
  \E nodes \in Programs(BlockNodes, MaxBlockNodes),
     profile \in {"", "prod", "dev"} :
    /\ StartEvaluate(<<[path |-> SourcePath, nodes |-> nodes]>>,
                     Options(profile, <<>>, TRUE, FALSE), ("P" :> <<"q">>))
    /\ policy = DefaultPolicy

SpecBlocks == InitBlocks /\ [][NextEvaluate]_vars

(***************************************************************************)
(* Properties of block directives                                          *)
(***************************************************************************)

\* The key has one history entry.
AssignedOnce(key) ==
  \E i \in 1..Len(assignmentLog) :
    assignmentLog[i].key = key /\ Len(assignmentLog[i].entries) = 1

\* The provider reference with args merged in as defaults: the arguments
\* given at the call win.
WithDefaults(ref, args) == [ref EXCEPT !.args = MergeArgs(args, @)]

\* The result holds for key what the provider gives for ref: its value, or
\* nothing when the provider fails.
ResolvedAs(key, ref) ==
  LET r == ResolveSingle(GetProviderName(ref), ref)
  IN IF r.ok THEN key \in DOMAIN env /\ env[key] = r.value
     ELSE key \notin DOMAIN env

IsWith(node) == node.type = "directive" /\ node.data.type = "with"

IsIf(node) == node.type = "directive" /\ node.data.type = "if"

\* C33: the default arguments of `with P(args) { ... }` are in effect for
\* exactly the references to P in the body of the block: such a reference is
\* resolved with args merged in as defaults, and a reference outside the
\* block is resolved with its own arguments only.
C33_WithDefaultsApplyInsideTheBlock ==
  pc = "done" =>
    \A i \in 1..Len(files[1].nodes) :
      LET node == files[1].nodes[i]
      IN /\ IsWith(node) =>
              \A j \in 1..Len(node.data.body) :
                LET a == node.data.body[j].data
                IN (/\ AssignedOnce(a.key)
                    /\ GetProviderName(a.expression.provider) = node.data.provider)
                     => ResolvedAs(a.key,
                          WithDefaults(a.expression.provider, node.data.args))
         /\ node.type = "assignment" =>
              (AssignedOnce(node.data.key)
                 => ResolvedAs(node.data.key, node.data.expression.provider))

\* The reference inside `with env(default="d")` to a variable the parent
\* does not define fails as it does outside the block.
C33_DefaultsNotApplied ==
  /\ pc = "done"
  /\ Len(files[1].nodes) = 1
  /\ IsWith(files[1].nodes[1])
  /\ "default" \in DOMAIN files[1].nodes[1].data.args
  /\ "A" \notin DOMAIN env
  /\ errors = <<"Failed to resolve A: Environment variable X not found">>
  /\ withContext = ("env" :> EmptyMap)

\* The condition is one of the two supported forms and is true.
SupportedAndTrue(c) ==
  \/ \E lit \in {Prod, <<"d", "e", "v">>} :
       c = ProfileIs(lit) /\ options.profile = Join(lit)
  \/ \E name \in {"P"}, lit \in {<<"q">>, <<"n">>} :
       /\ c = EnvIs(<<name>>, lit)
       /\ name \in DOMAIN parentEnv
       /\ parentEnv[name] = lit

\* The body of some @if of the file has been processed: its assignment of
\* F is in the history.
BodyProcessed == \E i \in 1..Len(assignmentLog) : assignmentLog[i].key = "F"

\* C34: the body of an @if is processed if and only if its condition is
\* exactly `profile == "<lit>"` with the run's profile equal to lit, or
\* `env("<NAME>") == "<lit>"` with the parent's NAME equal to lit; another
\* operator or clauses joined by && never make the body processed.
C34_IfBodyOnlyForSupportedCondition ==
  pc = "done" =>
    (BodyProcessed <=>
       \E i \in 1..Len(files[1].nodes) :
         /\ IsIf(files[1].nodes[i])
         /\ SupportedAndTrue(files[1].nodes[i].data.condition))

\* A condition of two clauses joined by && whose second clause is false: the
\* body is processed when the profile is the one of the first clause.
C34_CompositionProcessed ==
  /\ pc = "done"
  /\ options.profile = "prod"
  /\ files[1].nodes =
       <<IfNode(ProfileIs(Prod) \o AndAlso \o EnvIs(<<"P">>, <<"n">>), FlagBody)>>
  /\ env = ("F" :> <<"1">>)

(***************************************************************************)
(* Metadata of the result                                                  *)
(***************************************************************************)

\* C35: in every EvaluationResult each key that has a metadata entry is in
\* env, and the value of the entry is env[K], the final value handed to the
\* caller after interpolation.
C35_MetadataValueIsFinalValue ==
  pc = "done" =>
    \A k \in DOMAIN metadata :
      k \in DOMAIN env /\ metadata[k].value = env[k]

\* Every key with a metadata entry is in env, and the entry of a key whose
\* value holds no token is the final value.
C35_MetadataKeysAreInEnv ==
  pc = "done" =>
    \A k \in DOMAIN metadata :
      /\ k \in DOMAIN env
      /\ (\A i \in 1..Len(metadata[k].value) : metadata[k].value[i] # "$")
           => metadata[k].value = env[k]

\* B = "${A}" after A = "a": the result has B = a and the metadata of B
\* holds the token.
C35_MetadataHoldsToken ==
  /\ pc = "done"
  /\ "B" \in DOMAIN metadata
  /\ env["B"] = <<"a">>
  /\ metadata["B"].value = <<"$", "{", "A", "}">>

(***************************************************************************)
(* A history entry whose resolution throws                                 *)
(***************************************************************************)

\* The resolution of the expression of a line ends without an error.
Resolves(line) ==
  ResolveExpression(ParseAssignment(line, 1).expression, NoEffects).ok

\* The content is two "=" assignments of one key, the first resolving and
\* the second throwing.
ResolvesThenThrows ==
  /\ Len(content) = 2
  /\ content[1].kind = "assignment" /\ content[1].operator = "="
  /\ content[2].kind = "assignment" /\ content[2].operator = "="
  /\ content[1].key = content[2].key
  /\ Resolves(content[1])
  /\ ~Resolves(content[2])

\* C36: a history entry whose resolution throws contributes nothing: when a
\* key has an earlier entry that resolved and a later one that fails, one
\* error is recorded, env[K] keeps the value of the resolved entry, and
\* metadata[K] (source, transforms = the ordered pipe names of that entry,
\* provider, protected) is that of the resolved entry, not of the failed one.
C36_FailedEntryContributesNothing ==
  (pc = "done" /\ ResolvesThenThrows) =>
    LET key == content[1].key
        first == ParseAssignment(content[1], 1)
        resolved == ResolveExpression(first.expression, NoEffects).value
    IN /\ Len(errors) = 1
       /\ key \in DOMAIN env
       /\ env[key] = resolved
       /\ metadata[key] =
            [value |-> resolved,
             source |-> SourcePath,
             transforms |-> PipeNames(first.expression.pipes),
             provider |-> IF first.expression.provider.kind # "none"
                          THEN GetProviderName(first.expression.provider)
                          ELSE "",
             protected |-> first.options.protected]

\* A = "a" | upper || "x" followed by A = "a" | nope: the unknown pipe is
\* recorded, and A and its metadata are those of the first entry.
C36_Witness ==
  /\ pc = "done"
  /\ ResolvesThenThrows
  /\ errors = <<"Failed to resolve A: Unknown pipe: nope">>
  /\ env["A"] = <<"A">>
  /\ metadata["A"].transforms = <<"upper">>

(***************************************************************************)
(* "+=" after an empty value, a value, @unset and nothing.                 *)
(***************************************************************************)
AppendLines ==
  { Assign(FALSE, "A", "=", <<" ">> \o Q(<<>>)),
    Assign(FALSE, "A", "=", <<" ">> \o Q(<<"a">>)),
    Assign(FALSE, "A", "+=", <<" ">> \o Q(<<"c">>)),
    Assign(FALSE, "A", "+=", <<" ">> \o Q(<<>>)),
    Assign(FALSE, "A", "@unset", <<>>) }

InitAppend ==
  \E c \in Programs(AppendLines, MaxAppendLines) :
    /\ Start(c, Options("", <<>>, TRUE, FALSE), ("P" :> <<"q">>))
    /\ policy = DefaultPolicy

SpecAppend == InitAppend /\ [][Next]_vars

(***************************************************************************)
(* Properties of "+="                                                      *)
(***************************************************************************)

\* The literal of the i-th line of the content.
LiteralAt(i) == ParseAssignment(content[i], i).expression.literal

\* The running value [defined, value] after line i of the content, cur being
\* the one before it: "+=" uses the separator ":" when a running value exists
\* (whenEmpty = TRUE: also when it is the empty string).
ValueAfter(cur, i, whenEmpty) ==
  IF content[i].operator = "@unset" THEN Undefined
  ELSE IF content[i].operator = "="
  THEN [defined |-> TRUE, value |-> LiteralAt(i)]
  ELSE IF cur.defined /\ (whenEmpty \/ cur.value # <<>>)
  THEN [defined |-> TRUE, value |-> cur.value \o <<":">> \o LiteralAt(i)]
  ELSE [defined |-> TRUE, value |-> LiteralAt(i)]

\* The running value after the first i lines of the content.
RECURSIVE RunningValue(_, _)
RunningValue(i, whenEmpty) ==
  IF i = 0 THEN Undefined
  ELSE ValueAfter(RunningValue(i - 1, whenEmpty), i, whenEmpty)

\* The result holds for A the running value cur.
ResultHolds(cur) ==
  IF cur.defined THEN "A" \in DOMAIN env /\ env["A"] = cur.value
  ELSE "A" \notin DOMAIN env

\* C37: "+=" uses its separator if and only if a running value exists: with
\* no prior value in the history, or after @unset, the result is the resolved
\* value alone, and with any prior running value, the empty string included,
\* it is the prior value, the separator and the resolved value.
C37_SeparatorIffRunningValue ==
  pc = "done" => ResultHolds(RunningValue(Len(content), TRUE))

\* C37 as the code has it: "+=" uses its separator if and only if a running
\* value exists and is not the empty string; with no prior value, after
\* @unset, or after an empty running value the result is the resolved value
\* alone.
C37_SeparatorIffNonEmptyRunningValue ==
  pc = "done" => ResultHolds(RunningValue(Len(content), FALSE))

\* A = "" followed by A += "c" gives c; A = "a" followed by A += "c" would
\* give a:c.
C37_Witness ==
  /\ pc = "done"
  /\ Len(content) = 2
  /\ content[1].operator = "=" /\ LiteralAt(1) = <<>>
  /\ content[2].operator = "+=" /\ LiteralAt(2) = <<"c">>
  /\ env["A"] = <<"c">>

(***************************************************************************)
(* Values that refer to values that refer to values.                       *)
(***************************************************************************)
Token(name) == <<"$", "{">> \o name \o <<"}">>

NestedLines ==
  { Assign(FALSE, "A", "=", <<" ">> \o Q(Token(<<"B">>))),
    Assign(FALSE, "B", "=", <<" ">> \o Q(Token(<<"C">>))),
    Assign(FALSE, "C", "=", <<" ">> \o Q(<<"c">>)),
    Assign(FALSE, "A", "=", <<" ">> \o Q(Token(Token(<<"C">>)))) }

InitNested ==
  \E c \in Programs(NestedLines, MaxNestedLines), pure \in BOOLEAN,
     p \in {EmptyMap, ("C" :> <<"p">>)} :
    /\ Start(c, Options("", <<>>, pure, FALSE), p)
    /\ policy = DefaultPolicy

SpecNested == InitNested /\ [][Next]_vars

(***************************************************************************)
(* Properties of the interpolation pass                                    *)
(***************************************************************************)

\* The lines of the content that assign key.
LinesOf(key) == {i \in 1..Len(content) : content[i].key = key}

\* The last assignment of key in the content has the literal lit.
LastLiteralIs(key, lit) ==
  /\ LinesOf(key) # {}
  /\ ParseAssignment(content[Leftmost({i \in LinesOf(key) :
                                         \A j \in LinesOf(key) : j <= i})],
                     1).expression.literal = lit

\* C38: interpolation is single-pass and non-recursive: the text put in the
\* place of a token is not scanned again, so when A = `${B}` and B = `${C}`
\* the final A is the value of B before interpolation, the text `${C}`, in
\* whatever order the keys are assigned and interpolated; and the nested
\* token `${${C}}` is returned unchanged.
C38_InterpolationIsSinglePass ==
  pc = "done" =>
    /\ (LastLiteralIs("A", Token(<<"B">>)) /\ LastLiteralIs("B", Token(<<"C">>)))
         => env["A"] = Token(<<"C">>)
    /\ LastLiteralIs("A", Token(Token(<<"C">>)))
         => env["A"] = Token(Token(<<"C">>))

\* C = "c", B = "${C}", A = "${B}": B becomes c and A the text ${C}.
C38_Witness ==
  /\ pc = "done"
  /\ Len(content) = 3
  /\ content[1].key = "C" /\ content[2].key = "B" /\ content[3].key = "A"
  /\ env["B"] = <<"c">>
  /\ env["A"] = Token(<<"C">>)

(***************************************************************************)
(* Files that end inside a section, followed by other files: an included   *)
(* file and .secret.local.                                                 *)
(***************************************************************************)
CarryTopLines ==
  { SectionLine(<< <<"production">> >>),
    SectionLine(<< <<"scope", "node">> >>),
    Include(ToA),
    Assign(FALSE, "A", "=", <<" ">> \o Q(<<"a">>)) }

CarryIncludedLines ==
  { SectionLine(<< <<"production">> >>),
    Assign(FALSE, "B", "=", <<" ">> \o Q(<<"b">>)) }

CarryLocalBodies ==
  { <<Assign(FALSE, "K", "=", <<" ">> \o Q(<<"k">>))>>,
    <<SectionLine(<< <<"scope", "node">> >>),
      Assign(FALSE, "K", "=", <<" ">> \o Q(<<"k">>))>> }

InitCarry ==
  \E top \in Programs(CarryTopLines, MaxCarryLines),
     a \in Programs(CarryIncludedLines, MaxCarryLines),
     l \in CarryLocalBodies,
     profile \in {"", "staging"},
     scopes \in {<<>>, <<"python">>} :
    StartFiles((DotSecret :> top) @@ (ASecret :> a) @@ (DotSecretLocal :> l),
               [FileOptions(<<>>, profile, <<>>) EXCEPT !.scopes = scopes])

SpecCarry == InitCarry /\ [][NextOverlay]_vars

(***************************************************************************)
(* Properties of the section context                                       *)
(***************************************************************************)

\* Node n of file f is an assignment that comes before the first section
\* node of its file.
BeforeFirstSection(f, n) ==
  /\ files[f].nodes[n].type = "assignment"
  /\ \A m \in 1..(n - 1) : files[f].nodes[m].type # "section"

\* The assignment has been processed for the file at path: it is in the
\* history of its key with that source.
ProcessedFrom(assignment, path) ==
  \E i \in 1..Len(assignmentLog) :
    /\ assignmentLog[i].key = assignment.key
    /\ \E j \in 1..Len(assignmentLog[i].entries) :
         assignmentLog[i].entries[j] = [assignment |-> assignment, source |-> path]

\* The walk over the files is over.
Walked == pc \in {"resolve", "interpolate", "policies", "merge", "finish", "done"}

\* C39: section context does not carry across files: at the start of every
\* ParsedFile, the entry of an included file as well, no section is active,
\* so the nodes before the first section node of the file are processed,
\* whatever section the previous file ended in and whatever profile or
\* scopes were requested.
C39_SectionContextIsPerFile ==
  Walked =>
    \A f \in 1..Len(files) :
      \A n \in 1..Len(files[f].nodes) :
        BeforeFirstSection(f, n)
          => ProcessedFrom(files[f].nodes[n].data, files[f].path)

\* .secret ends inside [production] while staging is requested, and the B of
\* the included a.secret and the K of .secret.local are in the result.
C39_Witness ==
  /\ pc = "done"
  /\ options.profile = "staging"
  /\ Len(files) = 3
  /\ files[1].nodes[1].type = "section"
  /\ files[1].nodes[1].data.name = "production"
  /\ files[2].path = TagIncluded(ASecret)
  /\ {"B", "K"} \subseteq DOMAIN env
  /\ "A" \notin DOMAIN env
  /\ env["B"] = <<"b">>
  /\ env["K"] = <<"k">>

(***************************************************************************)
(* MemoryCache (src/src/core/cache/memory.ts, lines 8-57)                  *)
(***************************************************************************)
DefaultTtlMs == 900000

\* The optional ttl argument of set.
Unspecified == [given |-> FALSE, ms |-> 0]
Ms(n) == [given |-> TRUE, ms |-> n]

\* The condition `ttl ?` of set: undefined and 0 are falsy.
Truthy(ttl) == ttl.given /\ ttl.ms # 0

\* ttl ? Date.now() + ttl : Date.now() + 900000
ExpiresAt(ttl) == IF Truthy(ttl) THEN now + ttl.ms ELSE now + DefaultTtlMs

\* Date.now() > entry.expires
Expired(entry) == now > entry.expires

Hit(v) == [hit |-> TRUE, value |-> v]
Miss == [hit |-> FALSE, value |-> ""]

\* What get(key) returns.
GetResult(key) ==
  IF key \notin DOMAIN cacheEntries THEN Miss
  ELSE IF Expired(cacheEntries[key]) THEN Miss
  ELSE Hit(cacheEntries[key].value)

pipelineVars ==
  <<inputVars, overlayVars, pc, files, fileIdx, nodeIdx, currentSection,
    env, metadata, metaOrder, warnings, errors, assignmentLog, resolveIdx,
    withContext, trace>>

CacheGet(key) ==
  /\ pc = "cache"
  /\ value' = [op |-> "get", key |-> key]
  /\ output' = GetResult(key)
  /\ cacheEntries' = IF key \in DOMAIN cacheEntries /\ Expired(cacheEntries[key])
                THEN Delete(cacheEntries, key)
                ELSE cacheEntries
  /\ UNCHANGED <<pipelineVars, cleanupInterval, now, written>>

CacheSet(key, v, ttl) ==
  /\ pc = "cache"
  /\ value' = [op |-> "set", key |-> key]
  /\ output' = <<>>
  /\ cacheEntries' = Put(cacheEntries, key, [value |-> v, expires |-> ExpiresAt(ttl)])
  /\ written' = Put(written, key, [value |-> v, at |-> now, ttl |-> ttl])
  /\ UNCHANGED <<pipelineVars, cleanupInterval, now>>

CacheDelete(key) ==
  /\ pc = "cache"
  /\ value' = [op |-> "delete", key |-> key]
  /\ output' = <<>>
  /\ cacheEntries' = Delete(cacheEntries, key)
  /\ written' = Delete(written, key)
  /\ UNCHANGED <<pipelineVars, cleanupInterval, now>>

CacheClear ==
  /\ pc = "cache"
  /\ value' = [op |-> "clear", key |-> ""]
  /\ output' = <<>>
  /\ cacheEntries' = EmptyMap
  /\ written' = EmptyMap
  /\ UNCHANGED <<pipelineVars, cleanupInterval, now>>

\* The callback of the timer set by the constructor.
Cleanup ==
  /\ pc = "cache"
  /\ cleanupInterval
  /\ cacheEntries' = [k \in {x \in DOMAIN cacheEntries : ~Expired(cacheEntries[x])} |-> cacheEntries[k]]
  /\ UNCHANGED <<pipelineVars, value, output, cleanupInterval, now, written>>

Destroy ==
  /\ pc = "cache"
  /\ value' = [op |-> "destroy", key |-> ""]
  /\ output' = <<>>
  /\ cleanupInterval' = FALSE
  /\ cacheEntries' = EmptyMap
  /\ written' = EmptyMap
  /\ UNCHANGED <<pipelineVars, now>>

\* The instants at which an operation or the timer runs.
Instants == {0, 1, 100, 101, 900000, 900001}

\* Time passes between two operations.
Tick ==
  /\ pc = "cache"
  /\ \E t \in Instants : t > now /\ now' = t
  /\ UNCHANGED <<pipelineVars, value, output, cacheEntries, cleanupInterval, written>>

CacheKeys == {"k1", "k2"}
CacheValues == {"v", "w"}
Ttls == {Unspecified, Ms(0), Ms(100)}

NextCache ==
  \/ \E key \in CacheKeys : CacheGet(key)
  \/ \E key \in CacheKeys, v \in CacheValues, ttl \in Ttls : CacheSet(key, v, ttl)
  \/ \E key \in CacheKeys : CacheDelete(key)
  \/ CacheClear
  \/ Cleanup
  \/ Destroy
  \/ Tick

\* new MemoryCache(): no entries, the timer set.
InitCache ==
  /\ content = <<>>
  /\ options = FileOptions(<<>>, "", <<>>)
  /\ parentEnv = EmptyMap
  /\ policy = DefaultPolicy
  /\ pc = "cache"
  /\ fs = EmptyMap
  /\ resolvedFiles = <<>>
  /\ topIdx = 1
  /\ processedIncludes = {}
  /\ stack = <<>>
  /\ conflicts = <<>>
  /\ metaOrder = <<>>
  /\ trace = <<>>
  /\ files = <<>>
  /\ fileIdx = 1
  /\ nodeIdx = 1
  /\ currentSection = NoSection
  /\ env = EmptyMap
  /\ metadata = EmptyMap
  /\ warnings = <<>>
  /\ errors = <<>>
  /\ assignmentLog = <<>>
  /\ resolveIdx = 1
  /\ withContext = EmptyMap
  /\ value = <<>>
  /\ output = <<>>
  /\ cacheEntries = EmptyMap
  /\ cleanupInterval = TRUE
  /\ now = 0
  /\ written = EmptyMap

SpecCache == InitCache /\ [][NextCache]_vars

(***************************************************************************)
(* Properties of MemoryCache                                               *)
(***************************************************************************)

\* The expiry of a set as the documentation gives it: set time + ttl, or
\* + the default when no ttl was given.
StatedExpiry(w) == w.at + (IF w.ttl.given THEN w.ttl.ms ELSE DefaultTtlMs)

\* The value of the latest set of the key that has not been removed since,
\* unless the time is past its stated expiry.
Expected(key) ==
  IF key \in DOMAIN written /\ ~(now > StatedExpiry(written[key]))
  THEN Hit(written[key].value)
  ELSE Miss

\* C40: MemoryCache never returns an expired or removed entry: get(k) returns
\* the value of the most recent set(k, v, ttl) if k has not been deleted or
\* cleared since and the time is not past set time + ttl (or + the 15-minute
\* default when ttl is unspecified), and null otherwise, whether or not
\* cleanup has run; a later set replaces both the value and the expiry.
C40_GetReturnsLatestLiveSet ==
  [][\A key \in CacheKeys : CacheGet(key) => output' = Expected(key)]_vars

\* set("k1", "v", 0) at time 0 and get("k1") at time 1 returns "v".
C40_ZeroTtlOutlivesItsExpiry ==
  /\ pc = "cache"
  /\ now = 1
  /\ "k1" \in DOMAIN written
  /\ written["k1"] = [value |-> "v", at |-> 0, ttl |-> Ms(0)]
  /\ value = [op |-> "get", key |-> "k1"]
  /\ output = Hit("v")

====
